---- MODULE Spec2Model ----
(***************************************************************************)
(* WarpGrep (src/src/deepagents_cli/tools.py): the bounded multi-turn code *)
(* search loop, its tag codec, its path sandbox and its tool executors.    *)
(*                                                                         *)
(* A Python str is a sequence of tokens (TLA+ strings): a tag, a word, a   *)
(* separator, a blank.  Len of a token is its number of characters, so the *)
(* length of a str is the sum of the lengths of its tokens.                *)
(***************************************************************************)
EXTENDS Integers, Sequences, FiniteSets, TLC

VARIABLES
    \* ---- the environment of one warp_grep invocation
    api_key,      \* os.environ.get("MORPH_API_KEY") is set
    has_rg,       \* shutil.which("rg") is not None
    has_tree,     \* shutil.which("tree") is not None
    fs,           \* the file system: absolute path -> node
    repo_root,    \* the repo_root argument (a str, or None)
    query,        \* the query argument
    \* ---- the locals of warp_grep
    pc,           \* "start", "call", "exec", "done"
    root,         \* the resolved root (a path: a sequence of segments)
    messages,     \* the transcript
    chars_used,
    turn,         \* the loop variable of "for turn in range(MAX_TURNS)": the rounds
                  \* completed (MAX_TURNS: the range is exhausted)
    tool_calls,   \* the calls parsed from the last response
    results,      \* the rendered outputs of this turn so far
    result,       \* what warp_grep returned, or the exception it raised
    \* ---- what an observer sees
    calls,        \* how many times _call_morph was entered
    executed,     \* the tool executions so far: <<turn, call, output>>
    parsed,       \* the tool calls parsed (line 792) from each response so far
    sent,         \* the messages each call of the model was given (line 786)
    \* ---- the executors taken alone (specification ExecSpec)
    ex,           \* the last executor application: its input and its output
    \* ---- BackgroundTaskManager (background_tasks.py)
    _tasks,       \* task id -> the state of its asyncio task: "none" (no such
                  \* key), "pending" (created, no step run yet), "running"
                  \* (suspended in the handler), "done"
    must_cancel,  \* the tasks whose cancel() was called and not yet delivered
    _results,     \* task id -> the status of the stored result, or "none"
    \* ---- DeepAgentsApp (app.py) and its AgentsPill (widgets/agents_pill.py)
    _background_agent_tasks,
    _stream_agent_namespaces,
    deferred,     \* the callbacks given to call_later and not yet run, oldest first
    count,        \* AgentsPill.count
    active,       \* the pill has the class "active"
    \* ---- what an observer of the app sees
    completions,  \* task id -> how many times its on_complete callback was invoked
    cancel_ok,    \* the tasks for which cancel() returned True or that cleanup() cancelled
    cleaned,      \* the tasks cancelled by _cleanup_background_tasks
    cleanup_ran,  \* _cleanup_background_tasks was called
    open_streams  \* the namespaces whose stream started and has not ended

\* the state of the background agents
appvars == <<_tasks, must_cancel, _results, _background_agent_tasks,
             _stream_agent_namespaces, deferred, count, active, completions,
             cancel_ok, cleaned, cleanup_ran, open_streams>>

\* the state of warp_grep and of its executors
toolvars == <<api_key, has_rg, has_tree, fs, repo_root, query, pc, root, messages,
              chars_used, turn, tool_calls, results, result, calls, executed, parsed,
              sent, ex>>

vars == <<api_key, has_rg, has_tree, fs, repo_root, query, pc, root, messages,
          chars_used, turn, tool_calls, results, result, calls, executed, parsed,
          sent, ex, _tasks, must_cancel, _results, _background_agent_tasks,
          _stream_agent_namespaces, deferred, count, active, completions,
          cancel_ok, cleaned, cleanup_ran, open_streams>>

\* the task ids generate_id hands out and the stream namespaces
TaskIds == {"general-1", "general-2"}

Namespaces == {"ns1", "ns2"}

\* the app after __init__ and on_mount: no task, nothing tracked, nothing
\* deferred, the pill at 0 and hidden
AppIdle ==
    /\ _tasks = [t \in TaskIds |-> "none"]
    /\ must_cancel = {}
    /\ _results = [t \in TaskIds |-> "none"]
    /\ _background_agent_tasks = {}
    /\ _stream_agent_namespaces = {}
    /\ deferred = <<>>
    /\ count = 0
    /\ active = FALSE
    /\ completions = [t \in TaskIds |-> 0]
    /\ cancel_ok = {}
    /\ cleaned = {}
    /\ cleanup_ran = FALSE
    /\ open_streams = {}

-----------------------------------------------------------------------------
(* Python values *)

\* None, kept apart from every str (the empty str included)
None == <<"NoneType">>

\* bool(s) of an optional str
Truthy(s) == s # None /\ s # <<>>

\* a token that stands for one line of text as long as the whole budget
LongLine == "LONG_LINE"

LongLineLen == 160000

\* the characters of a token
TokenLen(t) == IF t = LongLine THEN LongLineLen ELSE Len(t)

\* len(s)
StrLen(s) == LET RECURSIVE Sum(_)
                 Sum(t) == IF t = <<>> THEN 0 ELSE TokenLen(Head(t)) + Sum(Tail(t))
             IN Sum(s)

IsSpace(t) == t \in {" ", "\n", "  "}

\* str.strip()
RECURSIVE LStrip(_)
LStrip(s) == IF s # <<>> /\ IsSpace(Head(s)) THEN LStrip(Tail(s)) ELSE s

RECURSIVE RStrip(_)
RStrip(s) == IF s # <<>> /\ IsSpace(s[Len(s)]) THEN RStrip(SubSeq(s, 1, Len(s) - 1)) ELSE s

Strip(s) == RStrip(LStrip(s))

\* sep.join(parts), the parts joined by halves
RECURSIVE Join(_, _)
Join(sep, parts) ==
    IF parts = <<>> THEN <<>>
    ELSE IF Len(parts) = 1 THEN parts[1]
    ELSE LET h == Len(parts) \div 2
         IN Join(sep, SubSeq(parts, 1, h)) \o sep \o Join(sep, SubSeq(parts, h + 1, Len(parts)))

\* s.split(sep), sep one token; "".split(sep) is [""].  The str is cut at
\* the separator nearest its middle and the halves are split in turn.
RECURSIVE Split(_, _)
Split(s, sep) ==
    LET mid == (Len(s) + 1) \div 2
        Has(j) == j \in 1..Len(s) /\ s[j] = sep
        Near(d) == Has(mid - d) \/ Has(mid + d)
        At(j) == Split(SubSeq(s, 1, j - 1), sep) \o Split(SubSeq(s, j + 1, Len(s)), sep)
        Cut(d) == At(IF Has(mid - d) THEN mid - d ELSE mid + d)
    IN IF \A j \in 1..Len(s) : s[j] # sep THEN <<s>>
       ELSE Cut(CHOOSE d \in 0..Len(s) : Near(d) /\ \A e \in 0..(d - 1) : ~Near(e))

\* the first index at or after i whose token is in T, 0 when there is none
FirstAt(s, i, T) ==
    LET J == {j \in i..Len(s) : s[j] \in T}
    IN IF J = {} THEN 0 ELSE CHOOSE m \in J : \A k \in J : m <= k

\* dict
EmptyDict == [k \in {} |-> <<>>]

DictSet(d, k, v) == [x \in (DOMAIN d) \cup {k} |-> IF x = k THEN v ELSE d[x]]

\* d.get(k, default)
DictGet(d, k, default) == IF k \in DOMAIN d THEN d[k] ELSE default

-----------------------------------------------------------------------------
(* ProtocolCodec: _parse_xml_elements, _parse_tool_calls *)

Open(n) == "<" \o n \o ">"

Close(n) == "</" \o n \o ">"

\* the element names a response may carry: the protocol's, one the protocol
\* does not know, and two that are a backslash followed by letters w
WordNames == {"grep", "read", "list_directory", "finish", "think", "file",
              "pattern", "sub_dir", "glob", "path", "lines", "search"}

BackslashNames == {"\\w", "\\ww"}

\* the two patterns of re.finditer in _parse_xml_elements: the one the
\* source holds, r"<(\\w+)>(.*?)</\\1>", and the one without the doubled
\* backslashes, r"<(\w+)>(.*?)</\1>"
PatternDoubled == "<(\\\\w+)>(.*?)</\\\\1>"

PatternWord == "<(\\w+)>(.*?)</\\1>"

\* In a raw string "\\w+" is the regular expression "an actual backslash,
\* then one or more letters w", and "</\\1>" is the text "</\1>"; "\w+" is
\* one or more word characters and "\1" is what group 1 matched.
GroupNames(pattern) == IF pattern = PatternDoubled THEN BackslashNames ELSE WordNames

ClosingOf(pattern, n) == IF pattern = PatternDoubled THEN "</\\1>" ELSE Close(n)

NameOfOpen(pattern, tok) == CHOOSE n \in GroupNames(pattern) : Open(n) = tok

\* the leftmost position where the pattern matches: an opening tag that has
\* its closing text somewhere after it (0: no match)
MatchStart(pattern, s) ==
    LET J == {j \in 1..Len(s) :
                /\ \E n \in GroupNames(pattern) : s[j] = Open(n)
                /\ FirstAt(s, j + 1, {ClosingOf(pattern, NameOfOpen(pattern, s[j]))}) # 0}
    IN IF J = {} THEN 0 ELSE CHOOSE m \in J : \A k \in J : m <= k

RECURSIVE ParseElements(_, _, _)
ParseElements(pattern, content, args) ==
    LET o == MatchStart(pattern, content)
    IN IF o = 0 THEN args
       ELSE LET key == NameOfOpen(pattern, content[o])
                c == FirstAt(content, o + 1, {ClosingOf(pattern, key)})
                value == Strip(SubSeq(content, o + 1, c - 1))
                rest == SubSeq(content, c + 1, Len(content))
            IN IF key = "file"
               THEN ParseElements(pattern, rest,
                        DictSet(args, "files",
                                Append(DictGet(args, "files", <<>>),
                                       ParseElements(pattern, value, EmptyDict))))
               ELSE ParseElements(pattern, rest, DictSet(args, key, value))

\* _parse_xml_elements with the pattern without the doubled backslashes
ParseXmlWordPattern(content) == ParseElements(PatternWord, content, EmptyDict)

_parse_xml_elements(content) == ParseElements(PatternDoubled, content, EmptyDict)

\* re.sub(r"<think>.*?</think>", "", response, flags=re.DOTALL)
RECURSIVE StripThink(_)
StripThink(s) ==
    LET o == FirstAt(s, 1, {Open("think")})
        c == IF o = 0 THEN 0 ELSE FirstAt(s, o + 1, {Close("think")})
    IN IF c = 0 THEN s
       ELSE SubSeq(s, 1, o - 1) \o StripThink(SubSeq(s, c + 1, Len(s)))

\* re.finditer(rf"<{tool_name}>(.*?)</{tool_name}>", response, re.DOTALL)
RECURSIVE FindCalls(_, _)
FindCalls(tool_name, s) ==
    LET o == FirstAt(s, 1, {Open(tool_name)})
        c == IF o = 0 THEN 0 ELSE FirstAt(s, o + 1, {Close(tool_name)})
    IN IF c = 0 THEN <<>>
       ELSE <<[name |-> tool_name, args |-> _parse_xml_elements(SubSeq(s, o + 1, c - 1))]>>
            \o FindCalls(tool_name, SubSeq(s, c + 1, Len(s)))

_parse_tool_calls(response) ==
    LET r == StripThink(response)
    IN FindCalls("grep", r) \o FindCalls("read", r)
       \o FindCalls("list_directory", r) \o FindCalls("finish", r)

-----------------------------------------------------------------------------
(* The file system.  A path is the sequence of its segments from "/" *)

Dir == [kind |-> "dir", target |-> <<>>, text |-> <<>>]

File(text) == [kind |-> "file", target |-> <<>>, text |-> text]

\* a symbolic link; its target is an absolute path
Link(target) == [kind |-> "link", target |-> target, text |-> <<>>]

MkFs(entries) == [p \in {e[1] : e \in entries} |-> (CHOOSE e \in entries : e[1] = p)[2]]

PasswdText == <<"root:x:0:0", "\n", "daemon:x:1:1", "\n">>

APyText == <<"import os", "\n", "def login():", "\n", "  ", "pass  ", "\n">>

\* a repository /repo beside /etc/passwd
PlainEntries ==
    { <<<<>>, Dir>>,
      <<<<"etc">>, Dir>>,
      <<<<"etc", "passwd">>, File(PasswdText)>>,
      <<<<"repo">>, Dir>>,
      <<<<"repo", ".git">>, Dir>>,
      <<<<"repo", "README">>, File(<<"hello">>)>>,
      <<<<"repo", "src">>, Dir>>,
      <<<<"repo", "src", "a.py">>, File(APyText)>> }

FsPlain == MkFs(PlainEntries)

\* the same, with a link out of the repository and a link to the repository
FsLinked == MkFs(PlainEntries \cup { <<<<"repo", "out">>, Link(<<"etc">>)>>,
                                     <<<<"lnk">>, Link(<<"repo">>)>> })

\* the names of a directory tree six entries wide
WideNames == {"k1", "k2", "k3", "k4", "k5", "k6"}

\* a repository with more entries than a listing may have: /repo/w holds six
\* directories of six directories of six files; /repo/src has a file four
\* levels down
WideEntries ==
    { <<<<"repo", "w">>, Dir>> }
    \cup { <<<<"repo", "w", a>>, Dir>> : a \in WideNames }
    \cup { <<<<"repo", "w", a, b>>, Dir>> : a, b \in WideNames }
    \cup { <<<<"repo", "w", a, b, c>>, File(<<"x">>)>> : a, b, c \in WideNames }
    \cup { <<<<"repo", "src", "k1">>, Dir>>, <<<<"repo", "src", "k1", "k1">>, Dir>>,
           <<<<"repo", "src", "k1", "k1", "k1">>, Dir>>,
           <<<<"repo", "src", "k1", "k1", "k1", "k1">>, File(<<"x">>)>> }

FsWide == MkFs(PlainEntries \cup WideEntries)

FileSystems == {FsPlain, FsLinked, FsWide}

\* every name in the order sorted() gives
SortedNames == <<".env", ".git", "README", "a.py", "etc",
                 "k1", "k2", "k3", "k4", "k5", "k6", "lnk", "nope", "out",
                 "passwd", "repo", "src", "w">>

NameRank(n) == CHOOSE i \in 1..Len(SortedNames) : SortedNames[i] = n

\* name.startswith(".")
StartsWithDot(n) == n \in {".env", ".git"}

IsPrefix(p, q) == Len(p) <= Len(q) /\ SubSeq(q, 1, Len(p)) = p

\* Path.resolve(): ".." steps up from the resolved path so far, a link is
\* replaced by its target, a missing segment is kept
RECURSIVE Realpath(_, _)
Realpath(done, rest) ==
    IF rest = <<>> THEN done
    ELSE LET name == Head(rest)
             np == Append(done, name)
         IN IF name = ".."
            THEN Realpath(IF done = <<>> THEN <<>> ELSE SubSeq(done, 1, Len(done) - 1),
                          Tail(rest))
            ELSE IF np \in DOMAIN fs /\ fs[np].kind = "link"
            THEN Realpath(<<>>, fs[np].target \o Tail(rest))
            ELSE Realpath(np, Tail(rest))

Resolve(p) == Realpath(<<>>, p)

\* Path.exists(), Path.is_dir(): both follow links
Exists(p) == Resolve(p) \in DOMAIN fs

IsDirectory(p) == Exists(p) /\ fs[Resolve(p)].kind = "dir"

\* Path(s) for a str s: "/" separates, "." and empty segments vanish
PathParts(s) == SelectSeq(s, LAMBDA t : t \notin {"/", "."})

IsAbsolute(s) == s # <<>> /\ s[1] = "/"

\* repo_root / rel_path
JoinPath(base, s) == IF IsAbsolute(s) THEN PathParts(s) ELSE base \o PathParts(s)

\* str(path)
PathStr(p) == IF p = <<>> THEN <<"/">>
              ELSE LET RECURSIVE Segs(_)
                       Segs(q) == IF q = <<>> THEN <<>> ELSE <<"/", Head(q)>> \o Segs(Tail(q))
                   IN Segs(p)

\* the names in a directory, sorted
RECURSIVE SortNames(_)
SortNames(S) ==
    IF S = {} THEN <<>>
    ELSE LET n == CHOOSE m \in S : \A k \in S : NameRank(m) <= NameRank(k)
         IN <<n>> \o SortNames(S \ {n})

\* sorted(path.iterdir()), as names: the entries of the directory the path leads to
IterDir(p) ==
    LET d == Resolve(p)
    IN SortNames({q[Len(q)] : q \in {r \in DOMAIN fs : Len(r) = Len(d) + 1 /\ IsPrefix(d, r)}})

\* everything at or below a physical path (what rg and tree, which follow
\* no link, can open when started on it)
Subtree(d) == {q \in DOMAIN fs : IsPrefix(d, q)}

-----------------------------------------------------------------------------
(* PathSandbox *)

\* relative_to(repo_root.resolve()) without the candidate being resolved
SafePathUnresolved(repo_root_, rel_path) ==
    LET candidate == JoinPath(repo_root_, rel_path)
    IN IF IsPrefix(Resolve(repo_root_), candidate)
       THEN [exc |-> "none", path |-> candidate]
       ELSE [exc |-> "ValueError", path |-> <<>>]

_safe_path(repo_root_, rel_path) ==
    LET candidate == Resolve(JoinPath(repo_root_, rel_path))
    IN IF IsPrefix(Resolve(repo_root_), candidate)
       THEN [exc |-> "none", path |-> candidate]
       ELSE [exc |-> "ValueError", path |-> <<>>]

-----------------------------------------------------------------------------
(* ToolExecutors.  An executor gives back [exc, out, touched]: the        *)
(* exception it raised ("none": it returned out) and, for the observer,   *)
(* the physical paths whose content or entries it read.                   *)

MAX_TURNS == 4

MAX_GREP_LINES == 200

MAX_LIST_LINES == 200

MAX_READ_LINES == 800

Returned(out, touched) == [exc |-> "none", out |-> out, touched |-> touched]

Raised(exc, touched) == [exc |-> exc, out |-> <<>>, touched |-> touched]

OutsideRoot == Returned(<<"Error: ", "Path outside repo root">>, {})

TooMuch == <<"query not specific enough, tool called tried to return too much context and failed">>

\* stripped.split("\n") if stripped else []
LinesOf(stripped) == IF stripped # <<>> THEN Split(stripped, "\n") ELSE <<>>

\* lines 581-586 with the listing cut to its first MAX_GREP_LINES lines
GrepResultCut(stripped, lines) ==
    IF Len(lines) > MAX_GREP_LINES THEN Join(<<"\n">>, SubSeq(lines, 1, MAX_GREP_LINES))
    ELSE IF stripped # <<>> THEN stripped
    ELSE <<"no matches">>

\* lines 581-586: what _execute_grep makes of output.strip() and its lines
GrepResult(stripped, lines) ==
    IF Len(lines) > MAX_GREP_LINES THEN TooMuch
    ELSE IF stripped # <<>> THEN stripped
    ELSE <<"no matches">>

\* lines 567-586 without the except clauses
GrepInUncaught(path, run) ==
    IF run.kind = "timeout" THEN Raised("TimeoutExpired", Subtree(path))
    ELSE IF run.kind = "error" THEN Raised("OSError", {})
    ELSE LET Result(stripped) == GrepResult(stripped, LinesOf(stripped))
         IN Returned(Result(Strip(run.stdout)), Subtree(path))

\* lines 555-586, the search path in hand.  run: what subprocess.run does:
\* [kind |-> "ok", stdout |-> ...], "timeout" (TimeoutExpired) or "error"
GrepIn(path, run) ==
    IF run.kind = "timeout" THEN Returned(<<"Error: search timed out">>, Subtree(path))
    ELSE IF run.kind = "error"
    THEN Returned(<<"Error: ", "[Errno 7] Argument list too long: 'rg'">>, {})
    ELSE LET Result(stripped) == GrepResult(stripped, LinesOf(stripped))
         IN Returned(Result(Strip(run.stdout)), Subtree(path))

_execute_grep(repo_root_, pattern, sub_dir, glob, run) ==
    LET Checked(sp) == IF sp.exc # "none" THEN OutsideRoot ELSE GrepIn(sp.path, run)
    IN IF ~has_rg THEN Returned(<<"Error: ripgrep (rg) not installed">>, {})
       ELSE Checked(_safe_path(repo_root_, sub_dir))

\* the largest line number a lines spec of the model names
MaxInt == 810

IntTokens == {ToString(n) : n \in 0..MaxInt}

\* int(s): [ok |-> FALSE] stands for ValueError
IntOf(s) ==
    LET Tok(t) == IF Len(t) = 1 /\ t[1] \in IntTokens
                  THEN [ok |-> TRUE, val |-> CHOOSE n \in 0..MaxInt : ToString(n) = t[1]]
                  ELSE [ok |-> FALSE, val |-> 0]
    IN Tok(Strip(s))

\* start, end = map(int, range_part.split("-"))
RangePair(ps) ==
    LET Pair(a, b) == [ok |-> a.ok /\ b.ok, start |-> a.val, end |-> b.val]
    IN IF Len(ps) = 2 THEN Pair(IntOf(ps[1]), IntOf(ps[2]))
       ELSE [ok |-> FALSE, start |-> 0, end |-> 0]

\* one range_part: "a-b" or "a"
RangeOf(range_part) ==
    LET Single(a) == [ok |-> a.ok, start |-> a.val, end |-> a.val]
    IN IF \E i \in 1..Len(range_part) : range_part[i] = "-"
       THEN RangePair(Split(range_part, "-"))
       ELSE Single(IntOf(range_part))

Min(a, b) == IF a <= b THEN a ELSE b

\* min(S) and max(S) of a set of integers that is not empty
Least(S) == CHOOSE x \in S : \A y \in S : x <= y

Greatest(S) == 0 - Least({0 - y : y \in S})

\* the members of S in lo..hi in increasing order, the range taken by halves
RECURSIVE SortedIn(_, _, _)
SortedIn(S, lo, hi) ==
    IF lo > hi THEN <<>>
    ELSE IF lo = hi THEN (IF lo \in S THEN <<lo>> ELSE <<>>)
    ELSE SortedIn(S, lo, (lo + hi) \div 2) \o SortedIn(S, (lo + hi) \div 2 + 1, hi)

\* sorted(S, reverse=True)
SortedDown(S) ==
    LET Turned(up) == [i \in 1..Len(up) |-> up[Len(up) + 1 - i]]
    IN IF S = {} THEN <<>> ELSE Turned(SortedIn(S, Least(S), Greatest(S)))

\* sorted(S) of a set of integers
Sorted(S) ==
    IF S = {} THEN <<>> ELSE SortedIn(S, Least(S), Greatest(S))

\* read_text().splitlines()
SplitLines(text) ==
    LET Pieces(ps) == IF ps[Len(ps)] = <<>> THEN SubSeq(ps, 1, Len(ps) - 1) ELSE ps
    IN IF text = <<>> THEN <<>> ELSE Pieces(Split(text, "\n"))

\* f"{idx}|{all_lines[idx]}": the numbering started at 0
NumberedFromZero(all_lines, idx) == <<ToString(idx), "|">> \o all_lines[idx + 1]

\* f"{idx + 1}|{all_lines[idx]}", idx counted from 0
Numbered(all_lines, idx) == <<ToString(idx + 1), "|">> \o all_lines[idx + 1]

\* prev_idx after the loop of lines 611-617 has gone through idxs: the last
\* of them that is in the file, or the prev_idx it started with
PrevAfter(n, idxs, prev_idx) ==
    LET V == {idxs[j] : j \in 1..Len(idxs)} \cap (0..(n - 1))
    IN IF V = {} THEN prev_idx ELSE Greatest(V)

\* line 614 without "prev_idx >= 0"
GapFromStart(prev_idx, idx) == idx > prev_idx + 1

\* line 614: "if prev_idx >= 0 and idx > prev_idx + 1"
Gap(prev_idx, idx) == prev_idx >= 0 /\ idx > prev_idx + 1

\* lines 610-617: the loop over sorted(set(selected)); idxs is gone through
\* by halves, the second half starting with the prev_idx the first leaves
RECURSIVE RangedLines(_, _, _)
RangedLines(all_lines, idxs, prev_idx) ==
    IF idxs = <<>> THEN <<>>
    ELSE IF Len(idxs) = 1
    THEN IF idxs[1] < 0 \/ idxs[1] >= Len(all_lines) THEN <<>>
         ELSE (IF Gap(prev_idx, idxs[1]) THEN << <<"...">> >> ELSE <<>>)
              \o <<Numbered(all_lines, idxs[1])>>
    ELSE LET h == Len(idxs) \div 2
         IN RangedLines(all_lines, SubSeq(idxs, 1, h), prev_idx)
            \o RangedLines(all_lines, SubSeq(idxs, h + 1, Len(idxs)),
                           PrevAfter(Len(all_lines), SubSeq(idxs, 1, h), prev_idx))

\* lines 621-624 with ">=" for ">"
ReadCappedAtCap(all_lines, output_lines) ==
    Join(<<"\n">>,
         IF Len(output_lines) >= MAX_READ_LINES
         THEN Append(SubSeq(output_lines, 1, MAX_READ_LINES),
                     <<"... truncated (", ToString(Len(all_lines)), " total lines)">>)
         ELSE output_lines)

\* lines 621-624: the cap on the output
ReadCapped(all_lines, output_lines) ==
    Join(<<"\n">>,
         IF Len(output_lines) > MAX_READ_LINES
         THEN Append(SubSeq(output_lines, 1, MAX_READ_LINES),
                     <<"... truncated (", ToString(Len(all_lines)), " total lines)">>)
         ELSE output_lines)

\* lines 602-608: the indices the ranges select; [ok |-> FALSE]: int() or
\* the unpacking raised ValueError
SelectedBy(ranges, n) ==
    [ok |-> \A i \in 1..Len(ranges) : ranges[i].ok,
     idxs |-> UNION {(ranges[i].start - 1) .. (Min(ranges[i].end, n) - 1) : i \in 1..Len(ranges)}]

\* lines 601-624, the lines of the file in hand
ReadLines(all_lines, lines, file_path) ==
    LET Parts(parts) == SelectedBy([i \in 1..Len(parts) |-> RangeOf(parts[i])], Len(all_lines))
        Ranged(sel) == IF ~sel.ok THEN Raised("ValueError", {file_path})
                       ELSE Returned(ReadCapped(all_lines,
                                                RangedLines(all_lines, Sorted(sel.idxs), -2)),
                                     {file_path})
    IN IF Truthy(lines) THEN Ranged(Parts(Split(lines, ",")))
       ELSE Returned(ReadCapped(all_lines,
                                [i \in 1..Len(all_lines) |-> Numbered(all_lines, i - 1)]),
                     {file_path})

\* lines 594-599, the path in hand
ReadFile(file_path, path, lines) ==
    IF ~Exists(file_path) THEN Returned(<<"Error: file not found: ">> \o path, {})
    ELSE IF fs[file_path].kind # "file"
    THEN Returned(<<"Error: ", "[Errno 21] Is a directory: '">> \o PathStr(file_path) \o <<"'">>,
                  {file_path})
    ELSE ReadLines(SplitLines(fs[file_path].text), lines, file_path)

_execute_read(repo_root_, path, lines) ==
    LET Checked(sp) == IF sp.exc # "none" THEN OutsideRoot ELSE ReadFile(sp.path, path, lines)
    IN Checked(_safe_path(repo_root_, path))

\* the regular expressions of the model: a str holding "(" does not compile
\* (re.error); any other matches a line that holds its tokens in a row
Compiles(pattern) == \A i \in 1..Len(pattern) : pattern[i] # "("

Search(pattern, line) ==
    \E i \in 0..(Len(line) - Len(pattern)) : SubSeq(line, i + 1, i + Len(pattern)) = pattern

\* the default of _fallback_list_dir's max_depth
max_depth == 3

excludes == {"node_modules", "__pycache__", "venv", ".venv", "dist", "build", ".git"}

Indent(depth) == [i \in 1..depth |-> "  "]

NoLines == [lines |-> <<>>, touched |-> {}]

Both(a, b) == [lines |-> a.lines \o b.lines, touched |-> a.touched \cup b.touched]

\* lines 686-693: one item of the loop; gives back the line it appends, if any
WalkLine(name, is_dir, depth, pattern) ==
    LET Kept(line) == IF ~Truthy(pattern) \/ Search(pattern, line) THEN <<line>> ELSE <<>>
    IN IF (StartsWithDot(name) /\ name # ".env") \/ name \in excludes THEN <<>>
       ELSE Kept(Indent(depth) \o <<name>> \o (IF is_dir THEN <<"/">> ELSE <<>>))

\* walk(path, depth) and its loop over sorted(path.iterdir()); is_dir() and
\* iterdir() follow links
RECURSIVE Walk(_, _, _)
RECURSIVE WalkItems(_, _, _, _)
WalkItems(path, names, depth, pattern) ==
    LET Item(name, is_dir) ==
            Both([lines |-> WalkLine(name, is_dir, depth, pattern), touched |-> {}],
                 IF is_dir /\ ~((StartsWithDot(name) /\ name # ".env") \/ name \in excludes)
                 THEN Walk(Append(path, name), depth + 1, pattern)
                 ELSE NoLines)
    IN IF names = <<>> THEN NoLines
       ELSE Both(Item(Head(names), IsDirectory(Append(path, Head(names)))),
                 WalkItems(path, Tail(names), depth, pattern))

Walk(path, depth, pattern) ==
    IF depth > max_depth THEN NoLines
    ELSE Both([lines |-> <<>>, touched |-> {Resolve(path)}],
              WalkItems(path, IterDir(path), depth, pattern))

\* gives back [exc, lines, touched]
_fallback_list_dir(dir_path, pattern) ==
    LET Cut(w) == [exc |-> "none",
                   lines |-> SubSeq(w.lines, 1, Min(Len(w.lines), MAX_LIST_LINES)),
                   touched |-> w.touched]
    IN IF Truthy(pattern) /\ ~Compiles(pattern)
       THEN [exc |-> "re.error", lines |-> <<>>, touched |-> {}]
       ELSE IF ~IsDirectory(dir_path)
       THEN [exc |-> "NotADirectoryError", lines |-> <<>>, touched |-> {Resolve(dir_path)}]
       ELSE Cut(Walk(dir_path, 0, pattern))

\* what "tree -L 3 -i -F --noreport -I <patterns> dir" prints: the directory,
\* then its entries to three levels, unindented, hidden and ignored names
\* left out, links shown and not followed
TreeLine(name, node) ==
    IF node.kind = "link" THEN <<name, " -> ">> \o PathStr(node.target)
    ELSE IF node.kind = "dir" THEN <<name, "/">>
    ELSE <<name>>

RECURSIVE TreeLines(_, _)
RECURSIVE TreeItems(_, _, _)
TreeItems(d, names, level) ==
    LET Item(name, node) ==
            IF StartsWithDot(name) \/ name \in excludes THEN <<>>
            ELSE <<TreeLine(name, node)>>
                 \o (IF node.kind = "dir" THEN TreeLines(Append(d, name), level + 1) ELSE <<>>)
    IN IF names = <<>> THEN <<>>
       ELSE Item(Head(names), fs[Append(d, Head(names))]) \o TreeItems(d, Tail(names), level)

TreeLines(d, level) == IF level > 3 THEN <<>> ELSE TreeItems(d, IterDir(d), level)

TreeStdout(dir_path) ==
    IF fs[dir_path].kind = "dir"
    THEN Join(<<"\n">>, <<PathStr(dir_path)>> \o TreeLines(dir_path, 1)) \o <<"\n">>
    ELSE PathStr(dir_path) \o <<"  [error opening dir]", "\n">>

\* lines 662-673: the pattern filter and the ceiling
ListResult(lines, pattern, touched) ==
    LET Ceiling(kept) == IF Len(kept) > MAX_LIST_LINES THEN Returned(TooMuch, touched)
                         ELSE Returned(Join(<<"\n">>, kept), touched)
    IN IF Truthy(pattern) /\ lines # <<>> /\ Compiles(pattern)
       THEN Ceiling(SelectSeq(lines, LAMBDA l : Search(pattern, l)))
       ELSE Ceiling(lines)

\* lines 632-673, the directory in hand.  run: what subprocess.run does:
\* "ok" (tree's output is captured) or an exception
ListIn(dir_path, path, pattern, run) ==
    LET Fallback(fb) == IF fb.exc # "none" THEN Raised(fb.exc, fb.touched)
                        ELSE ListResult(fb.lines, pattern, fb.touched)
    IN IF ~Exists(dir_path) THEN Returned(<<"Error: directory not found: ">> \o path, {})
       ELSE IF has_tree /\ run.kind # "ok"
       THEN Returned(<<"Error: ", "Command 'tree' timed out after 5 seconds">>, Subtree(dir_path))
       ELSE IF has_tree
       THEN ListResult(LinesOf(Strip(TreeStdout(dir_path))), pattern, Subtree(dir_path))
       ELSE Fallback(_fallback_list_dir(dir_path, pattern))

_execute_list_directory(repo_root_, path, pattern, run) ==
    LET Checked(sp) == IF sp.exc # "none" THEN OutsideRoot
                       ELSE ListIn(sp.path, path, pattern, run)
    IN Checked(_safe_path(repo_root_, path))

-----------------------------------------------------------------------------
(* Rendering, budget text, FinishResolver *)

\* f' {name}="{args[name]}"' when the call has the argument
Attr(a, name) ==
    IF name \in DOMAIN a THEN <<" " \o name \o "=\"">> \o a[name] \o <<"\"">> ELSE <<>>

_format_result(tool_call, output) ==
    IF tool_call.name = "grep"
    THEN <<"<grep ", "pattern=\"">> \o DictGet(tool_call.args, "pattern", <<>>) \o <<"\"">>
         \o Attr(tool_call.args, "sub_dir") \o Attr(tool_call.args, "glob")
         \o <<">", "\n">> \o output \o <<"\n", "</grep>">>
    ELSE IF tool_call.name = "read"
    THEN <<"<read ", "path=\"">> \o DictGet(tool_call.args, "path", <<>>) \o <<"\"">>
         \o Attr(tool_call.args, "lines")
         \o <<">", "\n">> \o output \o <<"\n", "</read>">>
    ELSE IF tool_call.name = "list_directory"
    THEN <<"<list_directory ", "path=\"">> \o DictGet(tool_call.args, "path", <<>>) \o <<"\"">>
         \o <<">", "\n">> \o output \o <<"\n", "</list_directory>">>
    ELSE output

\* the default of _format_turn_message's max_chars
max_chars == 160000

\* The quotient is taken in floating point.  When chars_used is k * 1600 the
\* product (chars_used / 160000) * 100 is k exactly in the reals, and for
\* these k (listed up to 520) the double it rounds to lies just below k, so
\* that int() gives k - 1.  For every other chars_used the product is at
\* least 1/1600 away from an integer and int() gives the exact quotient.
RoundsBelow ==
    {29, 57, 58, 113, 114, 115, 116, 201, 203, 205, 207, 226, 228, 230, 232, 251, 253,
     255, 402, 406, 410, 414, 427, 431, 435, 439, 452, 456, 460, 464, 477, 481, 485, 489,
     502, 506, 510}

\* line 731: int((chars_used / max_chars) * 100) if max_chars > 0 else 0
Pct(chars_used_) ==
    IF max_chars > 0
    THEN IF (chars_used_ * 100) % max_chars = 0 /\ (chars_used_ * 100) \div max_chars \in RoundsBelow
         THEN (chars_used_ * 100) \div max_chars - 1
         ELSE (chars_used_ * 100) \div max_chars
    ELSE 0

_format_turn_message(turn_, chars_used_) ==
    <<"\n">>
    \o (IF turn_ >= 3
        THEN <<"You have used 3 turns, you only have 1 turn remaining. ",
               "You have run out of turns to explore the code base and MUST call the finish tool now">>
        ELSE <<"You have used ", ToString(turn_), " turn">>
             \o (IF turn_ # 1 THEN <<"s">> ELSE <<>>)
             \o <<" and have ", ToString(4 - turn_), " remaining">>)
    \o <<"\n", "<context_budget>",
         ToString(Pct(chars_used_)), "% (",
         ToString(chars_used_ \div 1000), "K/", ToString(max_chars \div 1000), "K chars)",
         "</context_budget>">>

\* lines 740-743 without the "*" of lines 742-743
FinishLinesAsWritten(file_spec) == DictGet(file_spec, "lines", None)

\* lines 740-743: the lines argument _resolve_finish hands to _execute_read
FinishLines(file_spec) ==
    IF DictGet(file_spec, "lines", None) = <<"*">> THEN None
    ELSE DictGet(file_spec, "lines", None)

\* the loop of _resolve_finish over the file specs; gives back [exc, results, touched]
RECURSIVE ResolveFiles(_, _)
ResolveFiles(repo_root_, files) ==
    LET Entry(path, r, rest) ==
            IF r.exc # "none" THEN [exc |-> r.exc, results |-> <<>>, touched |-> r.touched]
            ELSE IF rest.exc # "none"
            THEN [exc |-> rest.exc, results |-> <<>>, touched |-> r.touched \cup rest.touched]
            ELSE [exc |-> "none",
                  results |-> <<[path |-> path, content |-> r.out]>> \o rest.results,
                  touched |-> r.touched \cup rest.touched]
        One(path, lines) == Entry(path, _execute_read(repo_root_, path, lines),
                                  ResolveFiles(repo_root_, Tail(files)))
    IN IF files = <<>> THEN [exc |-> "none", results |-> <<>>, touched |-> {}]
       ELSE One(DictGet(Head(files), "path", <<>>), FinishLines(Head(files)))

_resolve_finish(repo_root_, finish_call) ==
    ResolveFiles(repo_root_, DictGet(finish_call.args, "files", <<>>))

_get_repo_structure(repo_root_, run) ==
    LET Wrapped(r) ==
            IF r.exc # "none" THEN r
            ELSE Returned(<<"<repo_structure>", "\n">> \o r.out \o <<"\n", "</repo_structure>">>,
                          r.touched)
    IN Wrapped(_execute_list_directory(repo_root_, <<".">>, None, run))

-----------------------------------------------------------------------------
(* What the environment may hand to one invocation *)

\* the length of WARP_GREP_SYSTEM_PROMPT
SystemPromptLen == 6541

WARP_GREP_SYSTEM_PROMPT == <<"WARP_GREP_SYSTEM_PROMPT">>

\* len(content) of a message
ContentLen(content) ==
    IF content = WARP_GREP_SYSTEM_PROMPT THEN SystemPromptLen ELSE StrLen(content)

\* settings.project_root or Path.cwd()
DefaultRoot == <<"repo">>

RootArgs == {None, <<"/", "lnk">>, <<"/", "repo", "/", "README">>, <<"/", "nope">>}

Queries == {<<"find the login handler">>}

\* model responses: one call, several calls of mixed kinds (a malformed
\* lines value, paths that leave the root), an element the doubled pattern
\* matches, finish alone, finish among other calls, and four without a call
RespGrep == <<"<grep>", "<pattern>", "login", "</pattern>", "</grep>">>

RespMixed ==
    <<"<think>", "plan", "</think>", "\n",
      "<read>", "<path>", "src", "/", "a.py", "</path>", "<lines>", "abc", "</lines>", "</read>",
      "<list_directory>", "<path>", "..", "</path>", "</list_directory>",
      "<grep>", "<pattern>", "x", "</pattern>",
                "<sub_dir>", "..", "/", "..", "/", "etc", "</sub_dir>", "</grep>">>

RespBackslash == <<"<read>", "<\\w>", "v", "</\\1>", "</read>">>

RespFinish ==
    <<"<finish>", "<file>", "<path>", "src", "/", "a.py", "</path>",
                            "<lines>", "1", "-", "2", "</lines>", "</file>",
                  "<file>", "<path>", "README", "</path>", "<lines>", "1", "</lines>", "</file>",
      "</finish>">>

RespReadFinishGrep ==
    <<"<read>", "<path>", "README", "</path>", "</read>",
      "<finish>", "<file>", "<path>", "README", "</path>", "<lines>", "*", "</lines>", "</file>",
      "</finish>",
      "<grep>", "<pattern>", "x", "</pattern>", "</grep>">>

RespText == <<"I could not find it.">>

RespUnknown == <<"<search>", "login", "</search>">>

RespThinkOnly == <<"<think>", "<grep>", "<pattern>", "x", "</pattern>", "</grep>", "</think>">>

RespUnterminated == <<"<grep>", "<pattern>", "x", "</pattern>">>

Responses == {RespGrep, RespMixed, RespBackslash, RespFinish, RespReadFinishGrep,
              RespText, RespUnknown, RespThinkOnly, RespUnterminated}

\* n lines "path:line:text", each ended by a newline
RgLines(n) ==
    [j \in 1..(4 * n) |->
        IF j % 4 = 1 THEN "src/a.py:"
        ELSE IF j % 4 = 2 THEN ToString((j + 2) \div 4)
        ELSE IF j % 4 = 3 THEN ":x"
        ELSE "\n"]

\* rg's stdout: n lines; trail: the last matched line ends in blanks
RgStdout(n, trail) ==
    IF trail /\ n > 0 THEN SubSeq(RgLines(n), 1, 4 * n - 1) \o <<"  ", "\n">> ELSE RgLines(n)

RunOk(stdout) == [kind |-> "ok", stdout |-> stdout]

RunTimeout == [kind |-> "timeout", stdout |-> <<>>]

RunError == [kind |-> "error", stdout |-> <<>>]

\* what a subprocess does during a session: rg prints three matches, the
\* first of them in a very long line, or does not end in time
SessionRuns == {RunOk(<<"min.js:", "1", ":", LongLine, "\n">> \o RgStdout(2, TRUE)), RunTimeout}

-----------------------------------------------------------------------------
(* Orchestrator: warp_grep *)

NoResult == [kind |-> "none", error |-> <<>>, results |-> <<>>, exc |-> "none"]

ErrorResult(text) == [kind |-> "error", error |-> text, results |-> <<>>, exc |-> "none"]

ResultsOf(rs) == [kind |-> "results", error |-> <<>>, results |-> rs, exc |-> "none"]

RaisedOut(exc) == [kind |-> "raised", error |-> <<>>, results |-> <<>>, exc |-> exc]

Message(role, content) == [role |-> role, content |-> content]

\* the texts an executor returns for a failure it recovers from
ErrorHeads == {"Error: ", "Error: ripgrep (rg) not installed", "Error: search timed out",
               "Error: file not found: ", "Error: directory not found: "}

\* the executor runs no subprocess
NoRun == [kind |-> "none", stdout |-> <<>>]

\* the outcomes of the subprocess an executor runs, if it runs one (lines 549
\* and 568 for rg, 635 and 648 for tree)
RunsFor(name, runs) ==
    IF (name = "grep" /\ has_rg) \/ (name = "list_directory" /\ has_tree) THEN runs ELSE {NoRun}

\* one entry of the observer's log: the call of which turn, the outcome of its
\* subprocess, the exception it raised, whether its output is an error text,
\* the paths it read
Ran(turn_, name, run, r) ==
    [turn |-> turn_, name |-> name, run |-> run.kind, exc |-> r.exc,
     failed |-> (r.exc = "none" /\ name # "finish" /\ r.out # <<>> /\ r.out[1] \in ErrorHeads),
     touched |-> r.touched]

NoEx == [op |-> "none"]

Init ==
    /\ AppIdle
    /\ api_key \in BOOLEAN
    /\ has_rg \in BOOLEAN
    /\ has_tree \in BOOLEAN
    /\ fs = FsLinked
    /\ repo_root \in RootArgs
    /\ query \in Queries
    /\ pc = "start"
    /\ root = <<>>
    /\ messages = <<>>
    /\ chars_used = 0
    /\ turn = 0
    /\ tool_calls = <<>>
    /\ results = <<>>
    /\ result = NoResult
    /\ calls = 0
    /\ executed = <<>>
    /\ parsed = <<>>
    /\ sent = <<>>
    /\ ex = NoEx

Return(r) ==
    /\ result' = r
    /\ pc' = "done"

\* line 778: the first user message
FirstUserContent(structure) ==
    structure \o <<"\n", "\n", "<search_string>", "\n">> \o query \o <<"\n", "</search_string>">>

\* lines 768-770: the root
RootOf(arg) == IF Truthy(arg) THEN Resolve(PathParts(arg)) ELSE DefaultRoot

\* lines 764-772 without the check that the root exists
ConfigErrorKeyOnly ==
    IF ~api_key THEN <<"MORPH_API_KEY not configured in environment.">> ELSE <<>>

\* lines 764-772: the error of the configuration (the empty str: none)
ConfigError ==
    IF ~api_key THEN <<"MORPH_API_KEY not configured in environment.">>
    ELSE IF ~Exists(RootOf(repo_root))
    THEN <<"Repo root does not exist: ">> \o PathStr(RootOf(repo_root))
    ELSE <<>>

\* lines 764-782: the configuration checks and the initial transcript
Start ==
    /\ pc = "start"
    /\ IF ConfigError # <<>>
       THEN /\ Return(ErrorResult(ConfigError))
            /\ UNCHANGED <<root, messages, chars_used, executed>>
       ELSE \E run \in RunsFor("list_directory", {RunOk(<<>>), RunError}) :
            \E st \in {_get_repo_structure(RootOf(repo_root), run)} :
              /\ root' = RootOf(repo_root)
              /\ executed' = Append(executed, Ran(0, "list_directory", run, st))
              /\ IF st.exc # "none"
                 THEN /\ Return(RaisedOut(st.exc))
                      /\ UNCHANGED <<messages, chars_used>>
                 ELSE /\ messages' = <<Message("system", WARP_GREP_SYSTEM_PROMPT),
                                       Message("user", FirstUserContent(st.out))>>
                      /\ chars_used' = ContentLen(WARP_GREP_SYSTEM_PROMPT)
                                       + ContentLen(FirstUserContent(st.out))
                      /\ pc' = "call"
                      /\ UNCHANGED result
    /\ UNCHANGED appvars
    /\ UNCHANGED <<api_key, has_rg, has_tree, fs, repo_root, query, turn, tool_calls,
                   results, calls, parsed, sent, ex>>

\* line 784 with a round too many
InRangeInclusive(turn_) == turn_ <= MAX_TURNS

\* line 784: "for turn in range(MAX_TURNS)" has a next round
InRange(turn_) == turn_ < MAX_TURNS

\* lines 502-505 posting the newest message alone
PayloadLastOnly(messages_) == <<messages_[Len(messages_)]>>

\* lines 502-505: the "messages" of the request body are the list warp_grep
\* passes at line 786
Payload(messages_) == messages_

\* lines 785-788: _call_morph raises (no key, transport error, timeout, bad status, bad body)
CallFails ==
    /\ pc = "call"
    /\ InRange(turn)
    /\ calls' = calls + 1
    /\ sent' = Append(sent, Payload(messages))
    /\ Return(ErrorResult(<<"WarpGrep API error: ", "HTTPSConnectionPool: Read timed out.">>))
    /\ UNCHANGED appvars
    /\ UNCHANGED <<api_key, has_rg, has_tree, fs, repo_root, query, root, messages,
                   chars_used, turn, tool_calls, results, executed, parsed, ex>>

\* line 796 finding a finish call only when it is the first call parsed
FinishIndexFirstOnly(tcs) == IF tcs # <<>> /\ tcs[1].name = "finish" THEN 1 ELSE 0

\* line 796: next((tc for tc in tool_calls if tc.name == "finish"), None), as
\* the index of that call (0: None)
FinishIndex(tcs) ==
    LET J == {i \in 1..Len(tcs) : tcs[i].name = "finish"}
    IN IF J = {} THEN 0 ELSE CHOOSE i \in J : \A j \in J : i <= j

\* line 793 never taken
NoToolCallsUnchecked(tcs) == FALSE

\* line 793: "if not tool_calls"
NoToolCalls(tcs) == tcs = <<>>

\* lines 797-802: the result a finish call gives
Finished(fin) == IF fin.exc # "none" THEN RaisedOut(fin.exc) ELSE ResultsOf(fin.results)

\* lines 790 and 825 leaving chars_used as it is
NotGrown(chars_used_, content) == chars_used_

\* lines 790 and 825: chars_used += len(content)
Grown(chars_used_, content) == chars_used_ + StrLen(content)

\* lines 785-802: the model answers; the answer is appended and parsed
CallResponds ==
    /\ pc = "call"
    /\ InRange(turn)
    /\ calls' = calls + 1
    /\ sent' = Append(sent, Payload(messages))
    /\ \E response \in Responses :
       \E tcs \in {_parse_tool_calls(response)} :
       \E f \in {FinishIndex(tcs)} :
         /\ messages' = Append(messages, Message("assistant", response))
         /\ chars_used' = Grown(chars_used, response)
         /\ tool_calls' = tcs
         /\ parsed' = Append(parsed, tcs)
         /\ IF NoToolCalls(tcs)
            THEN /\ Return(ErrorResult(<<"WarpGrep returned no tool calls.">>))
                 /\ UNCHANGED <<results, executed>>
            ELSE IF f # 0
            THEN \E fin \in {_resolve_finish(root, tcs[f])} :
                   /\ Return(Finished(fin))
                   /\ executed' = Append(executed, Ran(turn + 1, "finish", NoRun, fin))
                   /\ UNCHANGED results
            ELSE /\ pc' = "exec"
                 /\ results' = <<>>
                 /\ UNCHANGED <<result, executed>>
    /\ UNCHANGED appvars
    /\ UNCHANGED <<api_key, has_rg, has_tree, fs, repo_root, query, root, turn, ex>>

\* lines 806-820: the executor of one call
Execute(tc, run) ==
    IF tc.name = "grep"
    THEN _execute_grep(root, DictGet(tc.args, "pattern", <<>>),
                       DictGet(tc.args, "sub_dir", <<".">>), DictGet(tc.args, "glob", None), run)
    ELSE IF tc.name = "read"
    THEN _execute_read(root, DictGet(tc.args, "path", <<>>), DictGet(tc.args, "lines", None))
    ELSE IF tc.name = "list_directory"
    THEN _execute_list_directory(root, DictGet(tc.args, "path", <<".">>),
                                 DictGet(tc.args, "pattern", None), run)
    ELSE Returned(<<"Unknown tool: ", tc.name>>, {})

\* lines 805-821: one round of "for tc in tool_calls"
ExecTool ==
    /\ pc = "exec"
    /\ Len(results) < Len(tool_calls)
    /\ \E tc \in {tool_calls[Len(results) + 1]} :
       \E run \in RunsFor(tc.name, SessionRuns) :
       \E r \in {Execute(tc, run)} :
         /\ executed' = Append(executed, Ran(turn + 1, tc.name, run, r))
         /\ IF r.exc # "none"
            THEN /\ Return(RaisedOut(r.exc))
                 /\ UNCHANGED results
            ELSE /\ results' = Append(results, _format_result(tc, r.out))
                 /\ UNCHANGED <<result, pc>>
    /\ UNCHANGED appvars
    /\ UNCHANGED <<api_key, has_rg, has_tree, fs, repo_root, query, root, messages,
                   chars_used, turn, tool_calls, calls, parsed, sent, ex>>

\* lines 823-825: the feedback message; the loop goes to its next round
EndTurn ==
    /\ pc = "exec"
    /\ Len(results) = Len(tool_calls)
    /\ \E result_content \in {Join(<<"\n", "\n">>, results)
                              \o _format_turn_message(turn + 1, chars_used)} :
         /\ messages' = Append(messages, Message("user", result_content))
         /\ chars_used' = Grown(chars_used, result_content)
    /\ turn' = turn + 1
    /\ pc' = "call"
    /\ UNCHANGED appvars
    /\ UNCHANGED <<api_key, has_rg, has_tree, fs, repo_root, query, root, tool_calls,
                   results, result, calls, executed, parsed, sent, ex>>

\* line 827 giving an empty result list in place of the error
TurnLimitEmptyResults == ResultsOf(<<>>)

\* line 827: what warp_grep returns after the loop
TurnLimitResult == ErrorResult(<<"WarpGrep did not finish within turn limit.">>)

\* line 827: range(MAX_TURNS) is exhausted
LoopExit ==
    /\ pc = "call"
    /\ ~InRange(turn)
    /\ Return(TurnLimitResult)
    /\ UNCHANGED appvars
    /\ UNCHANGED <<api_key, has_rg, has_tree, fs, repo_root, query, root, messages,
                   chars_used, turn, tool_calls, results, calls, executed, parsed, sent, ex>>

Next == Start \/ CallFails \/ CallResponds \/ ExecTool \/ EndTurn \/ LoopExit

Spec == Init /\ [][Next]_vars

-----------------------------------------------------------------------------
(* The path sandbox and the executors taken alone: the one step of a      *)
(* behaviour applies one of them to an input and keeps the input and the  *)
(* outcome in ex.                                                         *)

\* the most "../" a relative path of the model starts with
MaxUp == 3

\* the most lines in the stdout of rg
MaxStdoutLines == 202

\* "../" k times
RECURSIVE Ups(_)
Ups(k) == IF k = 0 THEN <<>> ELSE <<"..", "/">> \o Ups(k - 1)

Tails == { <<>>, <<".">>, <<"etc", "/", "passwd">>, <<"src", "/", "a.py">>, <<"README">>,
           <<"out", "/", "passwd">>, <<"src", "/", "..", "/", "..", "/", "etc", "/", "passwd">>,
           <<"repo", "/", "README">>, <<"nope">> }

RelPaths == {Ups(k) \o t : k \in 0..MaxUp, t \in Tails}
            \cup { <<"/", "etc", "/", "passwd">>, <<"/", "repo", "/", "src">> }

\* the relative path of the escape attempt
UpUpEtcPasswd == <<"..", "/", "..", "/", "etc", "/", "passwd">>

\* roots: "/", directories of every depth, a root reached through a link, a
\* root that is a file, a root that does not exist
ExecRoots == { <<>>, <<"etc">>, <<"repo">>, <<"repo", "src">>, <<"lnk">>, <<"repo", "out">>,
               <<"etc", "passwd">>, <<"nope", "etc", "passwd">>, <<"nope", "a", "b">> }

LinesArgs == { None, <<"*">>, <<"1">>, <<"2", "-", "3">>, <<"3", ",", "1">>, <<"abc">>,
               <<"0", "-", "9">> }

GrepRuns == {RunOk(RgStdout(n, trail)) : n \in 0..MaxStdoutLines, trail \in BOOLEAN}
            \cup {RunTimeout, RunError}

ListPatterns == {None, <<"a.py">>, <<"k1">>, <<"(">>}

\* the largest line number a generated lines spec names
MaxLineNo == 6

\* the lines of a file of n lines; the second one reads "..."
FileLines(n) == [i \in 1..n |-> IF i = 2 THEN <<"...">> ELSE <<"t", ToString(i)>>]

\* one range: <<a>> is "a", <<a, b>> is "a-b"
RangeParts == {<<a>> : a \in 0..MaxLineNo} \cup {<<a, b>> : a, b \in 0..MaxLineNo}

PartStr(r) == IF Len(r) = 1 THEN <<ToString(r[1])>> ELSE <<ToString(r[1]), "-", ToString(r[2])>>

\* the lines argument that names the ranges rs
LinesStr(rs) == Join(<<",">>, [i \in 1..Len(rs) |-> PartStr(rs[i])])

\* every spec of one or two ranges, and some of three
RangeSpecs ==
    {<<r>> : r \in RangeParts} \cup {<<r, q>> : r, q \in RangeParts}
    \cup { <<<<5, 5>>, <<5, 5>>, <<5>>>>, <<<<3>>, <<1, 2>>, <<2, 4>>>>, <<<<1>>, <<3>>, <<5>>>>,
           <<<<5>>, <<3>>, <<1>>>>, <<<<4, 6>>, <<0, 1>>, <<3, 3>>>> }

\* the files a read with ranges is applied to, by their number of lines
SmallFiles == {0, 3, 5}

\* the most lines a file of the model has
MaxFileLines == 803

\* files at the cap of _execute_read and beyond it
BigFiles == {MAX_READ_LINES - 1, MAX_READ_LINES, MAX_READ_LINES + 1, MaxFileLines}

\* what is read of a file of n lines at the cap: all of it without a lines
\* argument (<<>>), all of it as one range, and ranges that leave gaps
BigSpecs(n) == { <<>>, <<<<1, n>>>>, <<<<2, n>>>>, <<<<1>>, <<3, n>>>>,
                 <<<<402, n + 1>>, <<1, 400>>>>, <<<<n>>, <<1, 2>>>>,
                 <<<<1, MAX_READ_LINES - 1>>, <<MAX_READ_LINES + 1, n>>>> }

\* a file, by its number of lines, and the ranges read of it
ReadCases ==
    {[n |-> n, ranges |-> rs] : n \in SmallFiles, rs \in RangeSpecs \cup {<<>>}}
    \cup UNION {{[n |-> n, ranges |-> rs] : rs \in BigSpecs(n)} : n \in BigFiles}

\* the lines argument of a case
LinesArg(rs) == IF rs = <<>> THEN None ELSE LinesStr(rs)

ExecInit ==
    /\ AppIdle
    /\ api_key = TRUE
    /\ has_rg \in BOOLEAN
    /\ has_tree = has_rg
    /\ fs \in FileSystems
    /\ repo_root = None
    /\ query = <<>>
    /\ pc = "off"
    /\ root = <<>>
    /\ messages = <<>>
    /\ chars_used = 0
    /\ turn = 0
    /\ tool_calls = <<>>
    /\ results = <<>>
    /\ result = NoResult
    /\ calls = 0
    /\ executed = <<>>
    /\ parsed = <<>>
    /\ sent = <<>>
    /\ ex = NoEx

\* lines 539-545 applied
ApplySafePath ==
    /\ ex = NoEx
    /\ \E r \in ExecRoots, rel \in RelPaths :
       \E sp \in {_safe_path(r, rel)} :
         ex' = [op |-> "safe_path", root |-> r, rel |-> rel, exc |-> sp.exc, path |-> sp.path]
    /\ UNCHANGED appvars
    /\ UNCHANGED <<api_key, has_rg, has_tree, fs, repo_root, query, pc, root, messages,
                   chars_used, turn, tool_calls, results, result, calls, executed, parsed, sent>>

\* lines 589-624 applied
ApplyRead ==
    /\ ex = NoEx
    /\ \E r \in ExecRoots, rel \in RelPaths, lines \in LinesArgs :
       \E o \in {_execute_read(r, rel, lines)} :
         ex' = [op |-> "read", root |-> r, rel |-> rel, lines |-> lines,
                exc |-> o.exc, out |-> o.out, touched |-> o.touched]
    /\ UNCHANGED appvars
    /\ UNCHANGED <<api_key, has_rg, has_tree, fs, repo_root, query, pc, root, messages,
                   chars_used, turn, tool_calls, results, result, calls, executed, parsed, sent>>

\* lines 601-624 applied to the lines of a file and a lines argument made
\* of ranges, or none.  They read neither the file system nor PATH, so one
\* environment is enough.
ApplyReadLines ==
    /\ ex = NoEx
    /\ has_rg /\ fs = FsPlain
    /\ \E c \in ReadCases :
       \E o \in {ReadLines(FileLines(c.n), LinesArg(c.ranges), <<"repo", "f">>)} :
         ex' = [op |-> "read_lines", n |-> c.n, ranges |-> c.ranges,
                lines |-> LinesArg(c.ranges), exc |-> o.exc, out |-> o.out]
    /\ UNCHANGED appvars
    /\ UNCHANGED <<api_key, has_rg, has_tree, fs, repo_root, query, pc, root, messages,
                   chars_used, turn, tool_calls, results, result, calls, executed, parsed, sent>>

\* the paths and the lines values of the file specs of a finish call
\* (None: the file spec has no such key)
FinishPaths == { None, <<"src", "/", "a.py">>, <<"README">>, <<"nope">>, <<"src">>,
                 UpUpEtcPasswd }

FinishLinesValues == { None, <<"*">>, <<"1", "-", "2">>, <<"abc">> }

\* the dict of one <file>
FileSpec(path, lines) ==
    LET WithPath == IF path = None THEN EmptyDict ELSE DictSet(EmptyDict, "path", path)
    IN IF lines = None THEN WithPath ELSE DictSet(WithPath, "lines", lines)

FileSpecs == {FileSpec(p, l) : p \in FinishPaths, l \in FinishLinesValues}

\* the files lists: none, one, two, and one of three
FilesLists ==
    {<<>>} \cup {<<f>> : f \in FileSpecs} \cup {<<f, g>> : f, g \in FileSpecs}
    \cup { << FileSpec(<<"README">>, <<"*">>), FileSpec(<<"nope">>, None),
              FileSpec(<<"src", "/", "a.py">>, <<"1", "-", "2">>) >> }

\* _ToolCall(name="finish", args={"files": files})
FinishCall(files) == [name |-> "finish", args |-> DictSet(EmptyDict, "files", files)]

\* lines 736-746 applied (nothing in them looks at PATH)
ApplyFinish ==
    /\ ex = NoEx
    /\ has_rg
    /\ \E files \in FilesLists :
       \E o \in {_resolve_finish(<<"repo">>, FinishCall(files))} :
         ex' = [op |-> "finish", root |-> <<"repo">>, files |-> files,
                exc |-> o.exc, results |-> o.results, touched |-> o.touched]
    /\ UNCHANGED appvars
    /\ UNCHANGED <<api_key, has_rg, has_tree, fs, repo_root, query, pc, root, messages,
                   chars_used, turn, tool_calls, results, result, calls, executed, parsed, sent>>

\* lines 548-586 applied
ApplyGrep ==
    /\ ex = NoEx
    /\ \E r \in {<<"repo">>}, rel \in {<<".">>, UpUpEtcPasswd} :
       \E run \in RunsFor("grep", GrepRuns) :
       \E o \in {_execute_grep(r, <<"login">>, rel, None, run)} :
         ex' = [op |-> "grep", root |-> r, rel |-> rel, run |-> run,
                exc |-> o.exc, out |-> o.out, touched |-> o.touched]
    /\ UNCHANGED appvars
    /\ UNCHANGED <<api_key, has_rg, has_tree, fs, repo_root, query, pc, root, messages,
                   chars_used, turn, tool_calls, results, result, calls, executed, parsed, sent>>

\* lines 627-673 applied
ApplyList ==
    /\ ex = NoEx
    /\ \E r \in ExecRoots, rel \in {<<".">>, <<"src">>, <<"w">>, UpUpEtcPasswd, <<"nope">>} :
       \E pattern \in ListPatterns :
       \E run \in RunsFor("list_directory", {RunOk(<<>>), RunTimeout}) :
       \E o \in {_execute_list_directory(r, rel, pattern, run)} :
         ex' = [op |-> "list_directory", root |-> r, rel |-> rel, pattern |-> pattern,
                run |-> run, exc |-> o.exc, out |-> o.out, touched |-> o.touched]
    /\ UNCHANGED appvars
    /\ UNCHANGED <<api_key, has_rg, has_tree, fs, repo_root, query, pc, root, messages,
                   chars_used, turn, tool_calls, results, result, calls, executed, parsed, sent>>

-----------------------------------------------------------------------------
(* SkillLoader: skills/load.py.  FilesystemBackend and _parse_skill_metadata *)
(* belong to the deepagents package: what they return is part of the input. *)

\* the SKILL.md of a skill directory: what download_files gives for it
\* ("raises", a response with an error, a response without content, bytes),
\* whether the bytes decode as UTF-8, and what _parse_skill_metadata makes
\* of the text (None, or the metadata with its name)
SkillFile(download, decodes, name) ==
    [download |-> download, decodes |-> decodes, name |-> name]

Parsed(name) == SkillFile("bytes", TRUE, <<name>>)

SkillFiles ==
    { SkillFile("raises", TRUE, None), SkillFile("error", TRUE, None),
      SkillFile("none", TRUE, None), SkillFile("bytes", FALSE, None),
      SkillFile("bytes", TRUE, None), Parsed("a"), Parsed("b") }

\* one FileInfo of ls_info(".")
FileInfo(is_dir, path, file) == [is_dir |-> is_dir, path |-> path, file |-> file]

\* the FileInfo values at position i of a listing
FileInfos(i) ==
    LET path == <<"/", "d", ToString(i)>>
    IN {FileInfo(FALSE, path, Parsed("a")), FileInfo(TRUE, None, Parsed("a"))}
       \cup {FileInfo(TRUE, path, f) : f \in SkillFiles}

\* a source directory: what stat() says of it ("ok", "ENOENT", "EACCES"),
\* whether ls_info(".") raises, and the items it returns
SourceDir(stat, ls_raises, items) == [stat |-> stat, ls_raises |-> ls_raises, items |-> items]

\* the argument left at its default, None
NoSourceDir == SourceDir("None", FALSE, <<>>)

Listings ==
    {<<>>} \cup {<<x>> : x \in FileInfos(1)}
    \cup {<<x, y>> : x \in {FileInfo(TRUE, <<"/", "d", "1">>, Parsed(n)) : n \in {"a", "b"}},
                     y \in FileInfos(2)}

\* the values of a *_skills_dir argument
SourceDirs ==
    { NoSourceDir, SourceDir("ENOENT", FALSE, <<>>), SourceDir("EACCES", FALSE, <<>>),
      SourceDir("ok", TRUE, <<>>) }
    \cup {SourceDir("ok", FALSE, items) : items \in Listings}

\* Path.exists(): stat() failing with EACCES is re-raised by the pathlib of
\* Python 3.11 to 3.13 and answered False by later ones (reraises: which)
SourceExists(source_dir, reraises) ==
    CASE source_dir.stat = "ok" -> [exc |-> "none", value |-> TRUE]
      [] source_dir.stat = "EACCES" /\ reraises -> [exc |-> "PermissionError", value |-> FALSE]
      [] OTHER -> [exc |-> "none", value |-> FALSE]

\* lines 54-81 for one item: the skills it adds to loaded
LoadedFrom(item, source_name) ==
    IF ~item.is_dir THEN <<>>
    ELSE IF item.path = None THEN <<>>
    ELSE LET skill_md_path == item.path \o <<"/", "SKILL.md">>
         IN IF item.file.download = "raises" THEN <<>>
            ELSE IF item.file.download \in {"error", "none"} THEN <<>>
            ELSE IF ~item.file.decodes THEN <<>>
            ELSE IF item.file.name = None THEN <<>>
            ELSE << [name |-> item.file.name, path |-> skill_md_path,
                     source |-> source_name] >>

\* lines 31-83
_load_skills_from_source(source_dir, source_name, reraises) ==
    IF source_dir = NoSourceDir THEN [exc |-> "none", loaded |-> <<>>]
    ELSE LET e == SourceExists(source_dir, reraises)
             RECURSIVE Loop(_)
             Loop(i) == IF i > Len(source_dir.items) THEN <<>>
                        ELSE LoadedFrom(source_dir.items[i], source_name) \o Loop(i + 1)
         IN IF e.exc # "none" THEN [exc |-> e.exc, loaded |-> <<>>]
            ELSE IF ~e.value THEN [exc |-> "none", loaded |-> <<>>]
            ELSE IF source_dir.ls_raises THEN [exc |-> "none", loaded |-> <<>>]
            ELSE [exc |-> "none", loaded |-> Loop(1)]

\* all_skills[skill["name"]] = skill for each skill of loaded: the dict as
\* the sequence of its values in insertion order
StoreAll(all_skills, loaded) ==
    LET Store(d, skill) ==
            IF \E i \in 1..Len(d) : d[i].name = skill.name
            THEN [i \in 1..Len(d) |-> IF d[i].name = skill.name THEN skill ELSE d[i]]
            ELSE Append(d, skill)
        RECURSIVE Loop(_, _)
        Loop(d, i) == IF i > Len(loaded) THEN d ELSE Loop(Store(d, loaded[i]), i + 1)
    IN Loop(all_skills, 1)

\* lines 86-123
list_skills(default_skills_dir, user_skills_dir, project_skills_dir, reraises) ==
    LET d == _load_skills_from_source(default_skills_dir, "default", reraises)
        u == _load_skills_from_source(user_skills_dir, "user", reraises)
        p == _load_skills_from_source(project_skills_dir, "project", reraises)
    IN IF d.exc # "none" THEN [exc |-> d.exc, value |-> <<>>]
       ELSE IF u.exc # "none" THEN [exc |-> u.exc, value |-> <<>>]
       ELSE IF p.exc # "none" THEN [exc |-> p.exc, value |-> <<>>]
       ELSE [exc |-> "none",
             value |-> StoreAll(StoreAll(StoreAll(<<>>, d.loaded), u.loaded), p.loaded)]

\* lines 86-123 applied (they read neither PATH nor the repository)
ApplyListSkills ==
    /\ ex = NoEx
    /\ has_rg /\ fs = FsPlain
    /\ \E d \in SourceDirs, u \in SourceDirs, p \in SourceDirs, reraises \in BOOLEAN :
       \E o \in {list_skills(d, u, p, reraises)} :
         ex' = [op |-> "list_skills", default |-> d, user |-> u, project |-> p,
                exc |-> o.exc, value |-> o.value]
    /\ UNCHANGED appvars
    /\ UNCHANGED <<api_key, has_rg, has_tree, fs, repo_root, query, pc, root, messages,
                   chars_used, turn, tool_calls, results, result, calls, executed, parsed, sent>>

ExecNext ==
    ApplySafePath \/ ApplyRead \/ ApplyReadLines \/ ApplyFinish \/ ApplyGrep \/ ApplyList
    \/ ApplyListSkills

ExecSpec == ExecInit /\ [][ExecNext]_vars

-----------------------------------------------------------------------------
(* BackgroundTaskManager (background_tasks.py), the callbacks DeepAgentsApp *)
(* registers with it (app.py) and the AgentsPill (widgets/agents_pill.py).  *)
(* The handler of a task awaits the sub-agent, so a task suspends at least  *)
(* once; the registered callbacks are the app's, which are synchronous.     *)

\* how many callbacks call_later may hold at once
MaxDeferred == 3

\* max(a, b)
Max(a, b) == IF a >= b THEN a ELSE b

\* a callback handed to call_later
Deferred(kind, arg) == [kind |-> kind, arg |-> arg]

\* call_later(_do)
call_later(queue, do) == Append(queue, do)

\* agents_pill.py lines 51-62: the class "active" after count was set
watch_count(count_) == count_ > 0

\* app.py line 361, the two counts added
TotalOfBoth(tasks_, namespaces_) == Cardinality(tasks_) + Cardinality(namespaces_)

\* app.py line 361
Total(tasks_, namespaces_) == Max(Cardinality(tasks_), Cardinality(namespaces_))

\* app.py lines 359-368: the count given to the pill (the pill is mounted);
\* the reactive runs its watcher when the value changes
_refresh_agents_pill(tasks_, namespaces_) ==
    LET total == Total(tasks_, namespaces_)
    IN /\ count' = total
       /\ active' = IF total # count THEN watch_count(total) ELSE active

\* task.done()
Done(task_id) == _tasks[task_id] = "done"

\* background_tasks.py lines 126-141: the status of what check returns
check(task_id) ==
    IF _tasks[task_id] = "none" /\ _results[task_id] = "none" THEN "unknown"
    ELSE IF _results[task_id] # "none" THEN _results[task_id]
    ELSE "running"

\* background_tasks.py lines 143-157: the status of what wait returns once
\* the task it awaits is done
wait(task_id) ==
    IF _results[task_id] # "none" THEN _results[task_id]
    ELSE "unknown"

\* the app and the manager at rest, the tool not in use
AppInit ==
    /\ AppIdle
    /\ api_key = TRUE
    /\ has_rg = TRUE
    /\ has_tree = TRUE
    /\ fs = FsPlain
    /\ repo_root = None
    /\ query = <<>>
    /\ pc = "off"
    /\ root = <<>>
    /\ messages = <<>>
    /\ chars_used = 0
    /\ turn = 0
    /\ tool_calls = <<>>
    /\ results = <<>>
    /\ result = NoResult
    /\ calls = 0
    /\ executed = <<>>
    /\ parsed = <<>>
    /\ sent = <<>>
    /\ ex = NoEx

\* background_tasks.py lines 40-64 with the callback of app.py 312-319: the
\* task is created and the launch callback defers its _do
Launch ==
    \E task_id \in TaskIds :
        /\ _tasks[task_id] = "none"
        /\ Len(deferred) < MaxDeferred
        /\ _tasks' = [_tasks EXCEPT ![task_id] = "pending"]
        /\ deferred' = call_later(deferred, Deferred("launch", task_id))
        /\ UNCHANGED <<must_cancel, _results, _background_agent_tasks,
                       _stream_agent_namespaces, count, active, completions,
                       cancel_ok, cleaned, cleanup_ran, open_streams>>
        /\ UNCHANGED toolvars

\* the first step of the task of _run_task (lines 66-74): the handler is
\* entered and suspends; a task cancelled before this step gets the
\* CancelledError before its coroutine has entered the try of line 73
RunTaskStart ==
    \E task_id \in TaskIds :
        /\ _tasks[task_id] = "pending"
        /\ IF task_id \in must_cancel
           THEN /\ _tasks' = [_tasks EXCEPT ![task_id] = "done"]
                /\ must_cancel' = must_cancel \ {task_id}
           ELSE /\ _tasks' = [_tasks EXCEPT ![task_id] = "running"]
                /\ UNCHANGED must_cancel
        /\ UNCHANGED <<_results, _background_agent_tasks, _stream_agent_namespaces,
                       deferred, count, active, completions, cancel_ok, cleaned,
                       cleanup_ran, open_streams>>
        /\ UNCHANGED toolvars

\* lines 74-94 and 116-124 (the handler returns) or 101-124 (it raises): the
\* result is stored and the completion callback of app.py 321-339 defers its _do
RunTaskEnds ==
    \E task_id \in TaskIds, status \in {"completed", "failed"} :
        /\ _tasks[task_id] = "running"
        /\ task_id \notin must_cancel
        /\ Len(deferred) < MaxDeferred
        /\ _results' = [_results EXCEPT ![task_id] = status]
        /\ completions' = [completions EXCEPT ![task_id] = @ + 1]
        /\ deferred' = call_later(deferred, Deferred("complete", task_id))
        /\ _tasks' = [_tasks EXCEPT ![task_id] = "done"]
        /\ UNCHANGED <<must_cancel, _background_agent_tasks, _stream_agent_namespaces,
                       count, active, cancel_ok, cleaned, cleanup_ran, open_streams>>
        /\ UNCHANGED toolvars

\* lines 95-100: the CancelledError reaches the await of line 74; the
\* result is stored and _run_task returns
RunTaskCancelled ==
    \E task_id \in TaskIds :
        /\ _tasks[task_id] = "running"
        /\ task_id \in must_cancel
        /\ _results' = [_results EXCEPT ![task_id] = "cancelled"]
        /\ _tasks' = [_tasks EXCEPT ![task_id] = "done"]
        /\ must_cancel' = must_cancel \ {task_id}
        /\ UNCHANGED <<_background_agent_tasks, _stream_agent_namespaces, deferred,
                       count, active, completions, cancel_ok, cleaned, cleanup_ran,
                       open_streams>>
        /\ UNCHANGED toolvars

\* lines 171-177: cancel(task_id) returns True
Cancel ==
    \E task_id \in TaskIds :
        /\ _tasks[task_id] # "none" /\ ~Done(task_id)
        /\ must_cancel' = must_cancel \cup {task_id}
        /\ cancel_ok' = cancel_ok \cup {task_id}
        /\ UNCHANGED <<_tasks, _results, _background_agent_tasks,
                       _stream_agent_namespaces, deferred, count, active,
                       completions, cleaned, cleanup_ran, open_streams>>
        /\ UNCHANGED toolvars

\* background_tasks.py lines 198-202: the tasks cleanup() cancels
NotDone == {t \in TaskIds : _tasks[t] # "none" /\ ~Done(t)}

\* app.py lines 370-376
CleanupBackgroundTasks ==
    /\ must_cancel' = must_cancel \cup NotDone
    /\ cancel_ok' = cancel_ok \cup NotDone
    /\ cleaned' = cleaned \cup NotDone
    /\ cleanup_ran' = TRUE
    /\ _background_agent_tasks' = {}
    /\ _stream_agent_namespaces' = {}
    /\ _refresh_agents_pill({}, {})
    /\ UNCHANGED <<_tasks, _results, deferred, completions, open_streams>>
    /\ UNCHANGED toolvars

\* app.py lines 341-348: a stream of a sub-agent starts
SubagentStreamStart ==
    \E namespace \in Namespaces :
        /\ Len(deferred) < MaxDeferred
        /\ deferred' = call_later(deferred, Deferred("stream_start", namespace))
        /\ open_streams' = open_streams \cup {namespace}
        /\ UNCHANGED <<_tasks, must_cancel, _results, _background_agent_tasks,
                       _stream_agent_namespaces, count, active, completions,
                       cancel_ok, cleaned, cleanup_ran>>
        /\ UNCHANGED toolvars

\* app.py lines 350-357: a stream of a sub-agent ends
SubagentStreamEnd ==
    \E namespace \in Namespaces :
        /\ Len(deferred) < MaxDeferred
        /\ deferred' = call_later(deferred, Deferred("stream_end", namespace))
        /\ open_streams' = open_streams \ {namespace}
        /\ UNCHANGED <<_tasks, must_cancel, _results, _background_agent_tasks,
                       _stream_agent_namespaces, count, active, completions,
                       cancel_ok, cleaned, cleanup_ran>>
        /\ UNCHANGED toolvars

\* the message pump runs the oldest deferred _do (app.py 315-317, 324-326,
\* 344-346, 353-355)
RunDeferred ==
    /\ deferred # <<>>
    /\ LET do == Head(deferred)
           tasks_ == CASE do.kind = "launch" -> _background_agent_tasks \cup {do.arg}
                       [] do.kind = "complete" -> _background_agent_tasks \ {do.arg}
                       [] OTHER -> _background_agent_tasks
           namespaces_ == CASE do.kind = "stream_start" -> _stream_agent_namespaces \cup {do.arg}
                            [] do.kind = "stream_end" -> _stream_agent_namespaces \ {do.arg}
                            [] OTHER -> _stream_agent_namespaces
       IN /\ _background_agent_tasks' = tasks_
          /\ _stream_agent_namespaces' = namespaces_
          /\ _refresh_agents_pill(tasks_, namespaces_)
    /\ deferred' = Tail(deferred)
    /\ UNCHANGED <<_tasks, must_cancel, _results, completions, cancel_ok, cleaned,
                   cleanup_ran, open_streams>>
    /\ UNCHANGED toolvars

AppNext ==
    Launch \/ RunTaskStart \/ RunTaskEnds \/ RunTaskCancelled \/ Cancel
    \/ CleanupBackgroundTasks \/ SubagentStreamStart \/ SubagentStreamEnd \/ RunDeferred

AppSpec == AppInit /\ [][AppNext]_vars

-----------------------------------------------------------------------------
(* Properties of a session *)

\* the tool calls of response k.  The transcript holds the system message,
\* the first user message, and then a response (message 2k+1) and a feedback
\* message (2k+2) for each round k.
CallsOf(k) == parsed[k]

\* the number of responses so far
Responded == Len(parsed)

\* the log entries of the calls of round k
RanIn(k) == {i \in 1..Len(executed) : executed[i].turn = k}

\* C1: warp_grep calls the model at most MAX_TURNS = 4 times, the turn
\* counter stays in 0..4, and it is the number of round trips completed:
\* equal to the number of model calls at the head of the loop, one less
\* while the calls of a response are being executed.
C1_TurnBound ==
    /\ calls <= MAX_TURNS
    /\ turn \in 0..MAX_TURNS
    /\ (pc \in {"start", "call"} => turn = calls)
    /\ (pc = "exec" => calls = turn + 1)
    /\ (pc = "done" => calls \in {turn, turn + 1})

\* the fourth round trip is complete and the session is over
C1_Witness == pc = "done" /\ calls = MAX_TURNS /\ turn = MAX_TURNS

\* C2: warp_grep never raises an exception to its caller.
C2_NeverRaises == result.kind # "raised"

\* round k brought a response with at least one tool call and no finish call
Working(k) ==
    /\ k <= Responded
    /\ messages[2 * k + 1].role = "assistant"
    /\ CallsOf(k) # <<>>
    /\ \A i \in 1..Len(CallsOf(k)) : CallsOf(k)[i].name # "finish"

\* C3: when each of the first four responses holds at least one tool call and
\* none holds a finish call, the session ends after exactly four model calls
\* with the error "WarpGrep did not finish within turn limit." and no results.
C3_TurnLimit ==
    (pc = "done" /\ \A k \in 1..MAX_TURNS : Working(k))
        => /\ calls = MAX_TURNS
           /\ Responded = MAX_TURNS
           /\ result.kind = "error"
           /\ result.error = <<"WarpGrep did not finish within turn limit.">>
           /\ result.results = <<>>

\* four rounds of tool calls without finish, and the session is over
C3_Witness == pc = "done" /\ (\A k \in 1..MAX_TURNS : Working(k)) /\ result.kind = "error"

\* response k holds a finish call
HasFinish(k) == \E i \in 1..Len(CallsOf(k)) : CallsOf(k)[i].name = "finish"

\* C4: a response with a finish call ends the session in that turn with the
\* finish call resolved: the response is the last message of the transcript
\* (no feedback is rendered, the model is not called again), and no other call
\* of the response is executed.
C4_FinishWins ==
    \A k \in 1..Responded :
        HasFinish(k) =>
            /\ k = calls
            /\ messages[2 * k + 1].role = "assistant"
            /\ Len(messages) = 2 * k + 1
            /\ pc = "done"
            /\ result.kind = "results"
            /\ \A i \in RanIn(k) : executed[i].name = "finish"
            /\ Cardinality(RanIn(k)) = 1

\* finish with a read and a grep beside it, in the second round
C4_Witness ==
    /\ pc = "done"
    /\ calls = 2
    /\ Len(messages) = 5
    /\ messages[5].content = RespReadFinishGrep
    /\ result.kind = "results"

\* the session ended on a failed model call
ApiFailed == result.kind = "error" /\ result.error # <<>> /\ result.error[1] = "WarpGrep API error: "

\* C5: a failed model call and a response without tool calls end the session
\* in that turn with an error: the failed call is the last one and leaves no
\* response; the response without tool calls is the last message; no tool is
\* executed for that turn.
C5_Fatal ==
    /\ ApiFailed => /\ pc = "done"
                    /\ Responded = calls - 1
                    /\ Len(messages) = 2 * calls
                    /\ RanIn(calls) = {}
    /\ \A k \in 1..Responded :
          CallsOf(k) = <<>> =>
              /\ k = calls
              /\ Len(messages) = 2 * k + 1
              /\ pc = "done"
              /\ result = ErrorResult(<<"WarpGrep returned no tool calls.">>)
              /\ RanIn(k) = {}

\* a response without tool calls in the third round
C5_Witness ==
    /\ pc = "done"
    /\ calls = 3
    /\ Responded = 3
    /\ CallsOf(3) = <<>>
    /\ result.kind = "error"

\* the model call of the second round failed
C5_WitnessApi == pc = "done" /\ ApiFailed /\ calls = 2

\* C6: without the credential, or with a root that does not exist, warp_grep
\* returns an error before the loop: the model is never called, no executor
\* runs, no transcript is built.
C6_ConfigFirst ==
    (~api_key \/ ~Exists(RootOf(repo_root)))
        => /\ calls = 0
           /\ executed = <<>>
           /\ messages = <<>>
           /\ pc \in {"start", "done"}
           /\ (pc = "done" => result.kind = "error")

\* the credential is there, the root is not, and warp_grep has returned
C6_Witness == pc = "done" /\ api_key /\ ~Exists(RootOf(repo_root)) /\ result.kind = "error"

\* C7: no executor reads a path outside the resolved root.
C7_NothingOutsideRoot ==
    \A i \in 1..Len(executed) : \A p \in executed[i].touched : IsPrefix(root, p)

\* round k is complete: each call of its response was executed, in order,
\* and the feedback message follows the response
Complete(k) ==
    /\ Cardinality(RanIn(k)) = Len(CallsOf(k))
    /\ \A i \in RanIn(k) : executed[i].exc = "none"
    /\ Len(messages) >= 2 * k + 2
    /\ messages[2 * k + 2].role = "user"

\* the call of a log entry met a missing search binary, or a subprocess that
\* timed out or could not run
LocalFailure(e) ==
    \/ e.name = "grep" /\ (~has_rg \/ e.run \in {"timeout", "error"})
    \/ e.name = "list_directory" /\ e.run \in {"timeout", "error"}

\* C9: a tool call that fails locally gives an error text as the output of
\* that call only: the session is not ended by it, the other calls of the
\* turn are executed, the feedback is appended, and the loop goes on.
C9_LocalFailure ==
    \A i \in 1..Len(executed) :
        /\ (LocalFailure(executed[i]) /\ executed[i].turn >= 1) => executed[i].failed
        /\ (executed[i].failed /\ executed[i].turn >= 1) =>
            /\ executed[i].exc = "none"
            /\ IF turn < executed[i].turn
               THEN pc = "exec" /\ result = NoResult
               ELSE /\ Complete(executed[i].turn)
                    /\ (result.kind = "error" =>
                           \/ ApiFailed
                           \/ result.error = <<"WarpGrep returned no tool calls.">>
                           \/ result.error = <<"WarpGrep did not finish within turn limit.">>)
                    /\ (Len(messages) = 2 * executed[i].turn + 2 /\ result = NoResult
                           => pc = "call")

\* in the first round a call failed, a later call of the round succeeded, and
\* the model was called again
C9_Witness ==
    /\ calls = 2
    /\ \E i, j \in RanIn(1) :
          i < j /\ LocalFailure(executed[i]) /\ executed[i].failed /\ ~executed[j].failed

-----------------------------------------------------------------------------
(* Properties of the sandbox and the executors *)

\* "../../etc/passwd" was resolved, by _safe_path or by _execute_read
EscapeTried == ex.op \in {"safe_path", "read"} /\ ex.rel = UpUpEtcPasswd

\* the outcome is the sandbox error: _safe_path raised ValueError;
\* _execute_read returned the error text and read nothing
Refused ==
    IF ex.op = "safe_path" THEN ex.exc = "ValueError"
    ELSE ex.exc = "none" /\ ex.out = <<"Error: ", "Path outside repo root">> /\ ex.touched = {}

\* C8 as the specification states it: resolving "../../etc/passwd" fails with
\* the sandbox error for every root.
C8_EscapeAlwaysFails == EscapeTried => Refused

\* two levels above the canonical root R, etc/passwd is R itself or below R
TargetInside(R) ==
    \/ R = <<>>
    \/ R = <<"etc">>
    \/ (Len(R) >= 2 /\ SubSeq(R, Len(R) - 1, Len(R)) = <<"etc", "passwd">>)

\* C8, amended: resolving "../../etc/passwd" fails with the sandbox error, and
\* no content is read, exactly when the canonical target is outside the
\* canonical root; that is for every root but "/", "/etc" and the roots that
\* end in "etc/passwd", for which the path is returned.
C8_EscapeFailsOutside == EscapeTried => (Refused <=> ~TargetInside(Resolve(ex.root)))

\* _execute_read refused the escape from /repo/src
C8_Witness == EscapeTried /\ ex.op = "read" /\ ex.root = <<"repo", "src">> /\ Refused

\* rg ran on the root and ended normally
Searched == ex.op = "grep" /\ ex.run.kind = "ok" /\ ex.rel = <<".">>

\* the number of lines in rg's stdout
StdoutLines == Cardinality({j \in 1..Len(ex.run.stdout) : ex.run.stdout[j] = "\n"})

\* C10 as the specification states it: the sentinel for more than 200 lines,
\* else rg's output unchanged.
C10_SentinelOrUnchanged ==
    Searched => IF StdoutLines > MAX_GREP_LINES THEN ex.out = TooMuch
                ELSE ex.out = ex.run.stdout

\* C10, amended: _execute_grep returns exactly the sentinel when the output
\* has more than 200 lines; with 200 lines or fewer it returns the output
\* with the white space at its ends stripped, every line of it kept, and the
\* text "no matches" when there is no output.
C10_SentinelOrStripped ==
    Searched =>
        /\ ex.exc = "none"
        /\ IF StdoutLines > MAX_GREP_LINES THEN ex.out = TooMuch
           ELSE IF StdoutLines = 0 THEN ex.out = <<"no matches">>
           ELSE /\ ex.out = Strip(ex.run.stdout)
                /\ Len(LinesOf(ex.out)) = StdoutLines

\* rg printed one line more than the ceiling and the sentinel came back
C10_Witness == Searched /\ StdoutLines = MAX_GREP_LINES + 1 /\ ex.out = TooMuch

\* a read with ranges was applied to a file too short for the cap to cut
RangesRead == ex.op = "read_lines" /\ ex.ranges # <<>> /\ 2 * ex.n <= MAX_READ_LINES

\* some range of the spec covers line i
Covered(i) ==
    \E k \in 1..Len(ex.ranges) :
        ex.ranges[k][1] <= i /\ i <= ex.ranges[k][Len(ex.ranges[k])]

\* the lines of the output
OutLines == IF ex.out = <<>> THEN <<>> ELSE Split(ex.out, "\n")

\* the lines of the output that are not the gap marker
ShownLines == SelectSeq(OutLines, LAMBDA l : l # <<"...">>)

\* the covered lines of the file, numbered, in increasing order
CoveredLines ==
    LET Is == SelectSeq([i \in 1..ex.n |-> i], Covered)
    IN [k \in 1..Len(Is) |-> <<ToString(Is[k]), "|">> \o FileLines(ex.n)[Is[k]]]

C11_WitnessUnordered ==
    /\ RangesRead
    /\ ex.n = 5
    /\ ex.ranges = <<<<4, 6>>, <<0, 1>>, <<3, 3>>>>
    /\ Len(ShownLines) = 4

\* line i of the file in its numbered form
NumberedLine(i) == <<ToString(i), "|">> \o FileLines(ex.n)[i]

\* a file of at most 800 lines was read without a lines argument
WholeRead == ex.op = "read_lines" /\ ex.ranges = <<>> /\ ex.n <= MAX_READ_LINES

\* C12: a read without a lines argument of a file of N lines, N at most 800,
\* returns exactly N lines, the i-th being "i|" and the content of line i.
C12_WholeFileNumbered ==
    WholeRead => (ex.exc = "none" /\ OutLines = [i \in 1..ex.n |-> NumberedLine(i)])

\* a file of exactly 800 lines came back whole
C12_Witness == WholeRead /\ ex.n = MAX_READ_LINES /\ Len(OutLines) = MAX_READ_LINES

\* line i is read: there is no lines argument, or a range covers it
Wanted(i) == ex.ranges = <<>> \/ Covered(i)

\* line i is read, the line before it is not, and some line before that is
AfterGap(i) == Wanted(i) /\ ~Wanted(i - 1) /\ \E j \in 1..(i - 2) : Wanted(j)

\* what the read of lines lo..hi produces before the cap: the numbered lines,
\* the marker "..." before each one that follows a gap
RECURSIVE Uncut(_, _)
Uncut(lo, hi) ==
    IF lo > hi THEN <<>>
    ELSE IF lo = hi
    THEN IF ~Wanted(lo) THEN <<>>
         ELSE IF AfterGap(lo) THEN << <<"...">>, NumberedLine(lo) >>
         ELSE << NumberedLine(lo) >>
    ELSE Uncut(lo, (lo + hi) \div 2) \o Uncut((lo + hi) \div 2 + 1, hi)

\* the numbered lines alone
UncutNumbered == SelectSeq(Uncut(1, ex.n), LAMBDA l : l # <<"...">>)

Footer == <<"... truncated (", ToString(ex.n), " total lines)">>

\* C13 as the specification states it: beyond 800 output lines the read
\* returns the first 800 numbered lines and the footer.
C13_First800Numbered ==
    ex.op = "read_lines" =>
        /\ ex.exc = "none"
        /\ IF Len(Uncut(1, ex.n)) > MAX_READ_LINES
           THEN OutLines = Append(SubSeq(UncutNumbered, 1, Min(MAX_READ_LINES, Len(UncutNumbered))),
                                  Footer)
           ELSE OutLines = Uncut(1, ex.n)

\* C13, amended: when a read would produce more than 800 output lines,
\* numbered lines and gap markers counted alike, it returns the first 800 of
\* these output lines (the markers among them included) and then one footer
\* with the number of lines of the file, and does not fail; with 800 or
\* fewer nothing is cut and there is no footer.
C13_First800OutputLines ==
    ex.op = "read_lines" =>
        /\ ex.exc = "none"
        /\ IF Len(Uncut(1, ex.n)) > MAX_READ_LINES
           THEN OutLines = Append(SubSeq(Uncut(1, ex.n), 1, MAX_READ_LINES), Footer)
           ELSE OutLines = Uncut(1, ex.n)

\* "1,3-801" of a file of 801 lines: 800 numbered lines and one marker are
\* one line too many; the marker stays, line 801 goes, the footer follows
C13_Witness ==
    /\ ex.op = "read_lines"
    /\ ex.n = MAX_READ_LINES + 1
    /\ ex.ranges = <<<<1>>, <<3, MAX_READ_LINES + 1>>>>
    /\ Len(OutLines) = MAX_READ_LINES + 1
    /\ OutLines[2] = <<"...">>
    /\ OutLines[MAX_READ_LINES + 1] = Footer

\* a read with ranges that returned
RangedRead == ex.op = "read_lines" /\ ex.ranges # <<>> /\ ex.exc = "none"

\* the line number a token spells
NoOfToken == [t \in IntTokens |-> CHOOSE n \in 0..MaxInt : ToString(n) = t]

\* the output was cut: its last line is the footer
WasCut(out_lines) == out_lines # <<>> /\ out_lines[Len(out_lines)] = Footer

\* the line numbers the output lines start with, 0 for a marker line; the
\* footer of a cut is left out
LineNos(out_lines) ==
    [p \in 1..(IF WasCut(out_lines) THEN Len(out_lines) - 1 ELSE Len(out_lines)) |->
        IF out_lines[p] = <<"...">> THEN 0 ELSE NoOfToken[out_lines[p][1]]]

\* two numbered lines next to each other have consecutive line numbers; a
\* marker stands between two numbered lines whose numbers are not
\* consecutive, or (may_dangle) is the 800th and last line, after a numbered
\* line that is not the last of the file
MarkersIn(nos, may_dangle) ==
    /\ \A p \in 1..(Len(nos) - 1) : (nos[p] # 0 /\ nos[p + 1] # 0) => nos[p + 1] = nos[p] + 1
    /\ \A p \in 1..Len(nos) :
          nos[p] = 0 =>
              \/ /\ 1 < p /\ p < Len(nos)
                 /\ nos[p - 1] # 0 /\ nos[p + 1] # 0
                 /\ nos[p + 1] > nos[p - 1] + 1
              \/ /\ may_dangle
                 /\ p = MAX_READ_LINES /\ p = Len(nos)
                 /\ nos[p - 1] # 0 /\ nos[p - 1] < ex.n

\* C25 as the specification states it: in a ranged read a marker line "..."
\* stands between two output lines exactly when their line numbers are not
\* consecutive, and none stands before the first line or after the last.
C25_MarkerExactlyInGaps == RangedRead => MarkersIn(LineNos(OutLines), FALSE)

\* C25, amended: the same for every marker but one that the cut at 800
\* output lines leaves as the 800th line, the footer following it: that
\* marker has the line before the gap in front of it and nothing after it.
C25_MarkerInGapsUnlessCut == RangedRead => MarkersIn(LineNos(OutLines), WasCut(OutLines))

\* "1,3,5" of a file of five lines: a marker after line 1 and one after line 3
C25_Witness ==
    /\ RangedRead
    /\ ex.n = 5
    /\ ex.ranges = <<<<1>>, <<3>>, <<5>>>>
    /\ OutLines = << NumberedLine(1), <<"...">>, NumberedLine(3), <<"...">>, NumberedLine(5) >>

\* the path of file spec i of the finish call resolved
PathOf(i) == DictGet(ex.files[i], "path", <<>>)

\* C14: resolving a finish call that lists n files gives n entries in the
\* same order, entry i with the path of file i; a read that fails, a lines
\* value that is no range spec included, is the content of its entry and
\* stops nothing.
C14_EntryPerFile ==
    ex.op = "finish" =>
        /\ ex.exc = "none"
        /\ Len(ex.results) = Len(ex.files)
        /\ \A i \in 1..Len(ex.files) : ex.results[i].path = PathOf(i)

\* no file spec of the call has a lines value other than "*"
StarsOnly ==
    /\ ex.op = "finish"
    /\ \A i \in 1..Len(ex.files) : DictGet(ex.files[i], "lines", <<"*">>) = <<"*">>

\* the content a finish call gives for the one file spec f
ContentFor(f) == _resolve_finish(ex.root, FinishCall(<<f>>)).results[1].content

\* C15: a finish entry with lines="*" has the content of a read of the same
\* path without a lines argument, and the content of a finish entry for the
\* path that has no lines.
C15_StarIsWholeFile ==
    StarsOnly =>
        /\ ex.exc = "none"
        /\ Len(ex.results) = Len(ex.files)
        /\ \A i \in 1..Len(ex.files) :
              /\ ex.results[i].content = _execute_read(ex.root, PathOf(i), None).out
              /\ ex.results[i].content = ContentFor(DictSet(EmptyDict, "path", PathOf(i)))

\* a.py with lines="*" came back whole and numbered
C15_Witness ==
    /\ StarsOnly
    /\ ex.files = <<FileSpec(<<"src", "/", "a.py">>, <<"*">>)>>
    /\ ex.exc = "none"
    /\ ex.results[1].content =
         <<"1", "|", "import os", "\n", "2", "|", "def login():", "\n", "3", "|", "  ", "pass  ">>

-----------------------------------------------------------------------------
(* Properties of the codec in a session *)

\* response k as the model wrote it, and without its <think> blocks
ResponseText(k) == messages[2 * k + 1].content

Visible(k) == StripThink(ResponseText(k))

\* the argument elements of each tool
ArgKeys(n) ==
    IF n = "grep" THEN {"pattern", "sub_dir", "glob"}
    ELSE IF n = "read" THEN {"path", "lines"}
    ELSE {"path", "pattern"}

\* at position j response k opens a call of tool n whose first child is the
\* element <key> with a one-token value
WritesArg(k, j, n, key) ==
    /\ j + 3 <= Len(Visible(k))
    /\ Visible(k)[j] = Open(n)
    /\ Visible(k)[j + 1] = Open(key)
    /\ Visible(k)[j + 3] = Close(key)

\* a call of tool n parsed from response k has the value v for key
ParsedArg(k, n, key, v) ==
    \E i \in 1..Len(CallsOf(k)) :
        /\ CallsOf(k)[i].name = n
        /\ key \in DOMAIN CallsOf(k)[i].args
        /\ CallsOf(k)[i].args[key] = v

\* C16: the arguments of a parsed call are the child elements the model wrote
\* in the tag's body: a call written as <tool><key>v</key>...</tool> is
\* parsed with args[key] = v, and a finish call written with <file> children
\* is parsed with a files list that is not empty.
C16_ArgsAsWritten ==
    \A k \in 1..Responded :
        /\ \A n \in {"grep", "read", "list_directory"} : \A key \in ArgKeys(n) :
           \A j \in 1..Len(Visible(k)) :
              WritesArg(k, j, n, key) => ParsedArg(k, n, key, <<Visible(k)[j + 2]>>)
        /\ \A j \in 1..(Len(Visible(k)) - 1) :
              (Visible(k)[j] = Open("finish") /\ Visible(k)[j + 1] = Open("file"))
                  => \E i \in 1..Len(CallsOf(k)) :
                        /\ CallsOf(k)[i].name = "finish"
                        /\ DictGet(CallsOf(k)[i].args, "files", <<>>) # <<>>

\* the positions of the <file> elements of a text, in order
FilePositions(text) ==
    LET J == {j \in 1..Len(text) : text[j] = Open("file")}
        Nth(i) == CHOOSE j \in J : Cardinality({h \in J : h <= j}) = i
    IN [i \in 1..Cardinality(J) |-> Nth(i)]

\* the text of the first <name> element at or after position j
ElementFrom(text, j, name) ==
    LET o == FirstAt(text, j, {Open(name)})
        c == FirstAt(text, o + 1, {Close(name)})
    IN SubSeq(text, o + 1, c - 1)

\* response k is one finish call, each <file> of it a path and a line range
IsFinishCall(k) ==
    /\ Visible(k) # <<>>
    /\ Head(Visible(k)) = Open("finish")
    /\ Visible(k)[Len(Visible(k))] = Close("finish")
    /\ FilePositions(Visible(k)) # <<>>

\* C17: when the last response is a finish call listing files by path and
\* line range, the session returns one result entry per listed file, in
\* order, with the file's path and the numbered lines of its range.
C17_FinishReturnsListed ==
    \A k \in 1..Responded :
        (pc = "done" /\ k = Responded /\ IsFinishCall(k)) =>
            LET at == FilePositions(Visible(k))
            IN /\ result.kind = "results"
               /\ Len(result.results) = Len(at)
               /\ \A i \in 1..Len(at) :
                     /\ i <= Len(result.results)
                     /\ result.results[i].path = ElementFrom(Visible(k), at[i], "path")
                     /\ result.results[i].content =
                          _execute_read(root, ElementFrom(Visible(k), at[i], "path"),
                                        ElementFrom(Visible(k), at[i], "lines")).out

\* the tools of the calls a response writes, in the order of the text
InvokedOrder(text) ==
    LET IsCall(t) == t \in {Open("grep"), Open("read"), Open("list_directory")}
        tags == SelectSeq(text, IsCall)
    IN [i \in 1..Len(tags) |-> CHOOSE n \in {"grep", "read", "list_directory"} : tags[i] = Open(n)]

\* the tools of the blocks a feedback message renders, in the order of the text
RenderedOrder(content) ==
    LET IsBlock(t) == t \in {"<grep ", "<read ", "<list_directory "}
        heads == SelectSeq(content, IsBlock)
    IN [i \in 1..Len(heads) |->
           CHOOSE n \in {"grep", "read", "list_directory"} : heads[i] = "<" \o n \o " "]

\* C18: the feedback message of a round renders the outputs of the round's
\* calls in the order in which the calls appear in the response text.
C18_FeedbackInTextOrder ==
    \A k \in 1..Responded :
        Len(messages) >= 2 * k + 2 =>
            RenderedOrder(messages[2 * k + 2].content) = InvokedOrder(Visible(k))

-----------------------------------------------------------------------------
(* Properties of the transcript *)

\* the role of message i of a transcript
RoleAt(i) == IF i = 1 THEN "system" ELSE IF i % 2 = 0 THEN "user" ELSE "assistant"

\* the tools of the calls parsed from response k, in the order parsed
NamesOf(k) == [i \in 1..Len(CallsOf(k)) |-> CallsOf(k)[i].name]

\* what call c of the model was given: the whole transcript as it was then
\* (the system message, the first user message, a response and a feedback
\* message for each round before), and, after the first call, as its last
\* message the feedback that renders every call executed in round c - 1
FullTranscriptSent(c) ==
    /\ sent[c] = SubSeq(messages, 1, 2 * c)
    /\ Len(sent[c]) = 2 * c
    /\ \A i \in 1..Len(sent[c]) : sent[c][i].role = RoleAt(i)
    /\ c > 1 =>
          /\ RenderedOrder(sent[c][Len(sent[c])].content) = NamesOf(c - 1)
          /\ Len(RenderedOrder(sent[c][Len(sent[c])].content)) = Cardinality(RanIn(c - 1))

\* C19: the transcript only grows by appending, every call of the model is
\* given the whole transcript (system, user, then assistant and user in
\* turn), and the last message given to every call after the first is the
\* feedback with every tool output of the round before.
C19_TranscriptAppendOnly ==
    /\ [](Len(sent) = calls /\ \A c \in 1..Len(sent) : FullTranscriptSent(c))
    /\ [][IsPrefix(messages, messages')]_vars

\* the fourth call of the model was given eight messages, the last of them
\* the feedback of a round of three calls
C19_Witness ==
    /\ Len(sent) = MAX_TURNS
    /\ Len(sent[MAX_TURNS]) = 2 * MAX_TURNS
    /\ Len(RenderedOrder(sent[MAX_TURNS][2 * MAX_TURNS].content)) = 3

-----------------------------------------------------------------------------
(* Properties of the character budget *)

\* the sum of len(content) over the messages
RECURSIVE SumLen(_)
SumLen(ms) == IF ms = <<>> THEN 0 ELSE ContentLen(Head(ms).content) + SumLen(Tail(ms))

\* C27: once the transcript exists, and so at every call of the model,
\* chars_used is the sum of the content lengths of the messages of the
\* transcript; chars_used never decreases.
C27_CharsUsedIsTranscriptLength ==
    /\ [](messages # <<>> => chars_used = SumLen(messages))
    /\ [][sent' # sent => chars_used = SumLen(sent'[Len(sent')])]_vars
    /\ [][chars_used' >= chars_used]_vars

\* the fourth call of the model is about to be made with a transcript of
\* eight messages, all counted
C27_Witness ==
    /\ pc = "call"
    /\ calls = MAX_TURNS - 1
    /\ Len(messages) = 2 * MAX_TURNS
    /\ chars_used = SumLen(messages)
    /\ chars_used > SystemPromptLen

\* the percentage a feedback message reports
ReportedPct(content) == content[FirstAt(content, 1, {"<context_budget>"}) + 1]

\* C28: chars_used stays at or below 160000 while the loop runs, and the
\* percentage every feedback message reports is within 0..100.
C28_WithinBudget ==
    /\ pc \in {"call", "exec"} => chars_used <= max_chars
    /\ \A k \in 1..Responded :
          Len(messages) >= 2 * k + 2 =>
              \E n \in 0..100 : ReportedPct(messages[2 * k + 2].content) = ToString(n)

-----------------------------------------------------------------------------
(* Properties of the background agents *)

\* the tasks launched and not yet completed
Unfinished == {t \in TaskIds : _tasks[t] \in {"pending", "running"}}

\* every deferred callback has run
Settled == deferred = <<>>

\* nothing but launches, completions, stream starts and stream ends so far
Undisturbed == cancel_ok = {} /\ ~cleanup_ran

\* C22: once the deferred callbacks have run, the pill count is the larger of
\* the number of background tasks launched and not yet completed and the
\* number of stream namespaces started and not yet ended, whatever the order
\* of the launches, completions, stream starts and stream ends; the pill has
\* the class "active" exactly when its count is greater than 0.
C22_PillCountsTheLarger ==
    /\ active <=> count > 0
    /\ Settled /\ Undisturbed =>
         count = Max(Cardinality(Unfinished), Cardinality(open_streams))

\* a task has failed, the other runs and both streams are open: the pill
\* shows 2 once the callbacks have run
C22_Witness ==
    /\ Settled /\ Undisturbed
    /\ _results["general-1"] = "failed"
    /\ _tasks["general-2"] = "running"
    /\ open_streams = Namespaces
    /\ count = 2 /\ active

\* C23: a launched task that has ended, by its handler returning, by its
\* handler raising or by cancellation, has a stored result and has had its
\* on_complete callback invoked exactly once.
C23_EveryEndReported ==
    \A t \in TaskIds :
        Done(t) => _results[t] \in {"completed", "failed", "cancelled"} /\ completions[t] = 1

Terminal == {"completed", "failed", "cancelled"}

\* a terminal status that check reports never changes
TerminalIsFinal ==
    [][\A t \in TaskIds : check(t) \in Terminal => check(t)' = check(t)]_vars

\* C29: a task whose cancellation was accepted (cancel returned True, or
\* cleanup cancelled it), at whatever point of its execution, the time before
\* its first step included, is reported as 'cancelled' by check and by wait
\* once it has ended.
C29_CancelledIsReported ==
    \A t \in cancel_ok : Done(t) => check(t) = "cancelled" /\ wait(t) = "cancelled"

\* C30: once _cleanup_background_tasks has run and the deferred callbacks
\* have all been processed, the app tracks no task that the cleanup cancelled.
C30_CleanupLeavesNoCancelledTask ==
    cleanup_ran /\ Settled => _background_agent_tasks \cap cleaned = {}

-----------------------------------------------------------------------------
(* Properties of list_skills alone *)

ListedSkills == ex.op = "list_skills"

\* the sources in precedence order, the lowest first
SourceOrder == <<"default", "user", "project">>

SourceArg(k) == IF k = 1 THEN ex.default ELSE IF k = 2 THEN ex.user ELSE ex.project

\* source k is a directory that can be listed
ReadableSource(k) ==
    /\ SourceArg(k).stat = "ok"
    /\ ~SourceArg(k).ls_raises

\* source k holds a skill directory whose SKILL.md is read, decoded and
\* parsed as the skill named n
HasReadable(k, n) ==
    /\ ReadableSource(k)
    /\ \E i \in 1..Len(SourceArg(k).items) :
         LET item == SourceArg(k).items[i]
         IN /\ item.is_dir
            /\ item.path # None
            /\ item.file.download = "bytes"
            /\ item.file.decodes
            /\ item.file.name = <<n>>

\* the entries returned for the name n
EntriesOf(n) == {i \in 1..Len(ex.value) : ex.value[i].name = <<n>>}

\* each name is returned once if a source holds a readable skill of it, from
\* the highest such source, and not at all otherwise
HighestWins ==
    \A n \in {"a", "b"} :
        LET holders == {k \in 1..3 : HasReadable(k, n)}
        IN IF holders = {} THEN EntriesOf(n) = {}
           ELSE /\ Cardinality(EntriesOf(n)) = 1
                /\ \A i \in EntriesOf(n) :
                     /\ ex.value[i].source = SourceOrder[CHOOSE k \in holders : \A j \in holders : j <= k]
                     /\ HasReadable(CHOOSE k \in holders : \A j \in holders : j <= k, n)

\* C24: list_skills returns, with at most one entry per skill name, the entry
\* of the highest-precedence source (project over user over default) holding a
\* readable skill of that name; a source directory or a skill file that is
\* missing or cannot be read is skipped and the other sources load as usual.
C24_HighestReadableSourceWins ==
    ListedSkills => ex.exc = "none" /\ HighestWins

-----------------------------------------------------------------------------
(* Properties of list_directory alone *)

\* list_directory was applied to a pattern that is no regular expression
Malformed == ex.op = "list_directory" /\ ex.pattern # None /\ ~Compiles(ex.pattern)

\* the directory list_directory was applied to
ListedDir == _safe_path(ex.root, ex.rel).path

\* list_directory was applied to a directory inside the root, with no pattern
\* or one that compiles, and tree, where there is one, ran to its end
Listed ==
    /\ ex.op = "list_directory"
    /\ _safe_path(ex.root, ex.rel).exc = "none"
    /\ IsDirectory(ListedDir)
    /\ (ex.pattern = None \/ Compiles(ex.pattern))
    /\ (has_tree => ex.run.kind = "ok")

\* line l passes the pattern filter
Passes(l) == ex.pattern = None \/ Search(ex.pattern, l)

\* the whole listing, rendered and filtered: what tree prints, or every line
\* of the directory walk
Rendering ==
    IF has_tree THEN SelectSeq(LinesOf(Strip(TreeStdout(ListedDir))), Passes)
    ELSE Walk(ListedDir, 0, ex.pattern).lines

\* C21: when the rendered and filtered listing has more than 200 lines,
\* list_directory returns the sentinel "query not specific enough ..." and
\* never a part of the listing, with tree and with the directory walk.
C21_SentinelNotPartial ==
    Listed => /\ ex.exc = "none"
              /\ Len(Rendering) > MAX_LIST_LINES => ex.out = TooMuch
              /\ Len(Rendering) <= MAX_LIST_LINES => ex.out = Join(<<"\n">>, Rendering)

\* the entries at most three levels below a directory, hidden and excluded
\* names and what is below them left out
WithinThree(d) ==
    {q \in DOMAIN fs :
        /\ IsPrefix(d, q)
        /\ Len(q) - Len(d) \in 1..3
        /\ \A i \in (Len(d) + 1)..Len(q) : ~StartsWithDot(q[i]) /\ q[i] \notin excludes}

\* the entry lines of a listing: tree's first line is the directory itself
EntryLines(out) ==
    IF out = <<>> THEN <<>>
    ELSE IF has_tree THEN Tail(Split(out, "\n"))
    ELSE Split(out, "\n")

\* the directory walk indents an entry by two spaces for each level below
\* the first
Level(l) == IF Len(l) >= 3 /\ l[1] = "  " /\ l[2] = "  " /\ l[3] = "  " THEN 4
            ELSE IF Len(l) >= 2 /\ l[1] = "  " /\ l[2] = "  " THEN 3
            ELSE IF Len(l) >= 1 /\ l[1] = "  " THEN 2
            ELSE 1

\* a whole listing, unfiltered, of a directory of a file system without links
ListedWhole ==
    /\ Listed
    /\ ex.pattern = None
    /\ fs # FsLinked
    /\ ex.exc = "none"
    /\ ex.out # TooMuch

DepthThree(entry_lines) ==
    /\ ~has_tree => \A p \in 1..Len(entry_lines) : Level(entry_lines[p]) <= 3
    /\ Len(Rendering) <= MAX_LIST_LINES => Len(entry_lines) = Cardinality(WithinThree(ListedDir))

\* C26: list_directory renders no entry more than three levels below the
\* directory asked for, and the directory walk renders the entries tree
\* renders with depth limit 3: those at most three levels down.
C26_DepthThreeBothWays == ListedWhole => DepthThree(EntryLines(ex.out))

\* C20: list_directory with a pattern that is no regular expression does not
\* fail and gives the listing it gives without a pattern, with tree and
\* with the directory walk.
C20_MalformedPatternIgnored ==
    Malformed =>
        /\ ex.exc = "none"
        /\ ex.out = _execute_list_directory(ex.root, ex.rel, None, ex.run).out

====
